---- MODULE Spec2Model ----
(***************************************************************************)
(* Model of the sign-detection quiz controller (raise-your-sign):          *)
(*   quiz/utils/timer_utils.py        Timer                                *)
(*   quiz/cv/quiz_controller_cvcli.py QuizControllerCVCLI                  *)
(*   quiz/defaults/quiz_model.py      Quiz                                 *)
(*                                                                         *)
(* Python's Optional values are modelled as sequences of length <= 1:      *)
(* None is <<>> and the integer i is <<i>>.  Python's 0-based list         *)
(* positions are kept as they are in every value the code handles; only    *)
(* the access into a TLA+ sequence adds one.                               *)
(*                                                                         *)
(* Time is counted in ticks of the monotonic clock.  A Timer's duration    *)
(* is HOLD_TIME seconds expressed in ticks.                                *)
(***************************************************************************)
EXTENDS Integers, Sequences, FiniteSets, TLC

None == <<>>

Some(i) == <<i>>

Min(a, b) == IF a <= b THEN a ELSE b

RECURSIVE SeqMax(_)
\* Python's max(list) for a non-empty list of integers.
SeqMax(s) ==
    IF Len(s) = 1 THEN s[1]
    ELSE LET m == SeqMax(Tail(s)) IN IF s[1] >= m THEN s[1] ELSE m

\* Python's list.index(x): the 0-based position of the first occurrence.
ListIndex(s, x) == (CHOOSE i \in 1..Len(s) : s[i] = x /\ \A j \in 1..(i - 1) : s[j] /= x) - 1

\* Python's list[:n] for n >= 0.
SlicePrefix(s, n) == SubSeq(s, 1, Min(n, Len(s)))

(***************************************************************************)
(* Bounds of the model.                                                    *)
(***************************************************************************)
\* Resolution of the monotonic clock in the quiz runs: ticks per second.
TicksPerSecond == 2

\* The clock readings of a run lie in 0..MaxTime.
MaxTime == 8

\* Largest number of ticks between two consecutive camera reads.
MaxDt == 2

\* Largest number of options of a question of the quiz file.
MaxOpts == 2

\* Largest number of questions of the quiz file.
MaxQuestions == 1

\* Number of players of the quiz.
NumPlayers == 2

\* Largest detector list and option count handed to detect_color on its own.
MaxDetectors == 3

\* Frame rate of the fixed-rate scenario, in frames per second.
FPS == 30

(***************************************************************************)
(* Program constants.                                                      *)
(***************************************************************************)
\* QuizControllerCVCLI.HOLD_TIME = 2.0 (seconds).
HOLD_TIME == 2

\* ColorDetectionConfig.min_color_area = 30_000.
min_color_area == 30000

\* The number of entries of color_detectors built by run_quiz.
NumColorDetectors == 5

\* MaskConfig.min_contour_area = 5000.
min_contour_area == 5000

\* Surface scores a color detector may report: around the acceptance floor.
ScoreValues == {min_color_area - 1, min_color_area, min_color_area + 1, min_color_area + 2}

\* What the image of a camera frame of a quiz run makes get_sign_mask and the
\* color_detectors of run_quiz report, as <<sign_mask, scores>>: no sign; a
\* sign with no color above the floor, with one color above it, or with
\* every color above it with equal scores.
FrameImages ==
    {<<FALSE, [k \in 1..NumColorDetectors |-> min_color_area]>>}
    \cup {<<TRUE, [k \in 1..NumColorDetectors |-> min_color_area]>>}
    \cup {<<TRUE, [k \in 1..NumColorDetectors |->
                    IF k = c THEN min_color_area + 1 ELSE min_color_area]>> :
            c \in 1..NumColorDetectors}
    \cup {<<TRUE, [k \in 1..NumColorDetectors |-> min_color_area + 1]>>}

(***************************************************************************)
(* quiz/utils/timer_utils.py: Timer.  A timer is [duration, start]; t is   *)
(* the reading of time.monotonic() the method takes.                       *)
(***************************************************************************)
Timer(duration) == [duration |-> duration, start |-> None]

Timer_start(timer, t) == [timer EXCEPT !.start = Some(t)]

Timer_reset(timer, t) == Timer_start(timer, t)

\* Faulty variant: stop leaves the start instant in place.
Timer_stop_keeps_start(timer) == timer

Timer_stop(timer) == [timer EXCEPT !.start = None]

Timer_running(timer) == timer.start /= None

\* Faulty variant: expired as soon as running.
Timer_expired_no_duration(timer, t) == timer.start /= None

\* Faulty variant: expired only after more than the duration.
Timer_expired_strict(timer, t) ==
    /\ timer.start /= None
    /\ t - timer.start[1] > timer.duration

Timer_expired(timer, t) ==
    /\ timer.start /= None
    /\ t - timer.start[1] >= timer.duration

\* Timer.progress() at reading t.  The float it returns is the ratio
\* num / den (den > 0); the division by a duration of zero raises
\* ZeroDivisionError.
Ratio(num, den) == [kind |-> "return", num |-> num, den |-> den]

ZeroDivisionError == [kind |-> "raise", num |-> 0, den |-> 1]

Timer_progress(timer, t) ==
    IF timer.start = None THEN Ratio(0, 1)
    ELSE IF timer.duration = 0 THEN ZeroDivisionError
    ELSE LET elapsed == t - timer.start[1]
         IN  IF elapsed < timer.duration
             THEN Ratio(elapsed, timer.duration)
             ELSE Ratio(1, 1)

(***************************************************************************)
(* QuizControllerCVCLI.detect_color(roi, n_opts, color_detectors).         *)
(*   sign_mask : whether get_sign_mask(roi) returned a mask (not None);    *)
(*   n_opts    : the number of options of the current question;            *)
(*   scores    : scores[k + 1] is what the detector at position k of       *)
(*               color_detectors returns on the masked image.              *)
(* The outcome is [kind, value, invoked]: kind "return" with the returned  *)
(* Optional index, or kind "raise" when the call ends in an exception      *)
(* (max() of an empty list raises ValueError); invoked is the set of       *)
(* positions of color_detectors whose detector was called.                 *)
(***************************************************************************)
Returned(v, inv) == [kind |-> "return", value |-> v, invoked |-> inv]

Raised(inv) == [kind |-> "raise", value |-> None, invoked |-> inv]

\* Faulty variant: every detector is evaluated, whatever n_opts.
detect_color_no_slice(sign_mask, n_opts, scores) ==
    IF ~sign_mask THEN Returned(None, {})
    ELSE LET surfaces == scores
             invoked == {k - 1 : k \in 1..Len(surfaces)}
         IN  IF Len(surfaces) = 0 THEN Raised(invoked)
             ELSE LET max_surface == SeqMax(surfaces)
                  IN  IF max_surface <= min_color_area
                      THEN Returned(None, invoked)
                      ELSE Returned(Some(ListIndex(surfaces, max_surface)), invoked)

\* Faulty variant: a top score equal to the floor is accepted.
detect_color_floor_inclusive(sign_mask, n_opts, scores) ==
    IF ~sign_mask THEN Returned(None, {})
    ELSE LET surfaces == SlicePrefix(scores, n_opts)
             invoked == {k - 1 : k \in 1..Len(surfaces)}
         IN  IF Len(surfaces) = 0 THEN Raised(invoked)
             ELSE LET max_surface == SeqMax(surfaces)
                  IN  IF max_surface < min_color_area
                      THEN Returned(None, invoked)
                      ELSE Returned(Some(ListIndex(surfaces, max_surface)), invoked)

\* Faulty variant: the last position of the top score is returned.
detect_color_last_max(sign_mask, n_opts, scores) ==
    IF ~sign_mask THEN Returned(None, {})
    ELSE LET surfaces == SlicePrefix(scores, n_opts)
             invoked == {k - 1 : k \in 1..Len(surfaces)}
         IN  IF Len(surfaces) = 0 THEN Raised(invoked)
             ELSE LET max_surface == SeqMax(surfaces)
                      last == CHOOSE i \in 1..Len(surfaces) :
                                  /\ surfaces[i] = max_surface
                                  /\ \A j \in (i + 1)..Len(surfaces) : surfaces[j] /= max_surface
                  IN  IF max_surface <= min_color_area
                      THEN Returned(None, invoked)
                      ELSE Returned(Some(last - 1), invoked)

\* Faulty variant: the detectors are evaluated whether a sign mask was found or not.
detect_color_ignores_mask(sign_mask, n_opts, scores) ==
    LET surfaces == SlicePrefix(scores, n_opts)
        invoked == {k - 1 : k \in 1..Len(surfaces)}
    IN  IF Len(surfaces) = 0 THEN Raised(invoked)
        ELSE LET max_surface == SeqMax(surfaces)
             IN  IF max_surface <= min_color_area
                 THEN Returned(None, invoked)
                 ELSE Returned(Some(ListIndex(surfaces, max_surface)), invoked)

detect_color(sign_mask, n_opts, scores) ==
    IF ~sign_mask THEN Returned(None, {})
    ELSE LET surfaces == SlicePrefix(scores, n_opts)
             invoked == {k - 1 : k \in 1..Len(surfaces)}
         IN  IF Len(surfaces) = 0 THEN Raised(invoked)
             ELSE LET max_surface == SeqMax(surfaces)
                  IN  IF max_surface <= min_color_area
                      THEN Returned(None, invoked)
                      ELSE Returned(Some(ListIndex(surfaces, max_surface)), invoked)

(***************************************************************************)
(* QuizControllerCVCLI.update_hold_timer(detected_index,                   *)
(* current_color_index, timer), called at clock reading t.  The outcome is *)
(* [index, validated, timer, op]: the returned pair, the timer as the call *)
(* leaves it, and the Timer method that changed it ("stop", "reset" or     *)
(* "none").                                                                *)
(***************************************************************************)
HoldOutcome(index, validated, timer, op) ==
    [index |-> index, validated |-> validated, timer |-> timer, op |-> op]

\* Faulty variant: a lost detection neither stops the timer nor forgets the candidate.
update_hold_timer_keeps_on_none(detected_index, current_color_index, timer, t) ==
    IF detected_index = None
    THEN HoldOutcome(current_color_index, FALSE, timer, "none")
    ELSE IF detected_index /= current_color_index
    THEN HoldOutcome(detected_index, FALSE, Timer_reset(timer, t), "reset")
    ELSE IF Timer_expired(timer, t)
    THEN HoldOutcome(current_color_index, TRUE, timer, "none")
    ELSE HoldOutcome(current_color_index, FALSE, timer, "none")

\* Faulty variant: the timer is started when it is not running, never restarted
\* when the candidate changes.
update_hold_timer_no_restart(detected_index, current_color_index, timer, t) ==
    IF detected_index = None
    THEN HoldOutcome(None, FALSE, Timer_stop(timer), "stop")
    ELSE IF ~Timer_running(timer)
    THEN HoldOutcome(detected_index, FALSE, Timer_reset(timer, t), "reset")
    ELSE IF Timer_expired(timer, t)
    THEN HoldOutcome(detected_index, TRUE, timer, "none")
    ELSE HoldOutcome(detected_index, FALSE, timer, "none")

\* Faulty variant: validated as soon as the tracked candidate is detected again.
update_hold_timer_no_expiry(detected_index, current_color_index, timer, t) ==
    IF detected_index = None
    THEN HoldOutcome(None, FALSE, Timer_stop(timer), "stop")
    ELSE IF detected_index /= current_color_index
    THEN HoldOutcome(detected_index, FALSE, Timer_reset(timer, t), "reset")
    ELSE HoldOutcome(current_color_index, TRUE, timer, "none")

\* Faulty variant: a lost detection forgets the candidate and lets the timer run.
update_hold_timer_none_keeps_timer(detected_index, current_color_index, timer, t) ==
    IF detected_index = None
    THEN HoldOutcome(None, FALSE, timer, "none")
    ELSE IF detected_index /= current_color_index
    THEN HoldOutcome(detected_index, FALSE, Timer_reset(timer, t), "reset")
    ELSE IF Timer_expired(timer, t)
    THEN HoldOutcome(current_color_index, TRUE, timer, "none")
    ELSE HoldOutcome(current_color_index, FALSE, timer, "none")

update_hold_timer(detected_index, current_color_index, timer, t) ==
    IF detected_index = None
    THEN HoldOutcome(None, FALSE, Timer_stop(timer), "stop")
    ELSE IF detected_index /= current_color_index
    THEN HoldOutcome(detected_index, FALSE, Timer_reset(timer, t), "reset")
    ELSE IF Timer_expired(timer, t)
    THEN HoldOutcome(current_color_index, TRUE, timer, "none")
    ELSE HoldOutcome(current_color_index, FALSE, timer, "none")

(***************************************************************************)
(* Python list access.  list[i] accepts -len <= i < len (a negative i      *)
(* counts from the end) and raises IndexError otherwise.                   *)
(***************************************************************************)
PyIndexOk(s, i) == -Len(s) <= i /\ i < Len(s)

PyGet(s, i) == IF i >= 0 THEN s[i + 1] ELSE s[Len(s) + i + 1]

(***************************************************************************)
(* quiz/defaults/quiz_model.py: Quiz.  A line of the quiz file is          *)
(* [question, options, correct_answer].                                    *)
(***************************************************************************)
Fallback == [question |-> "", options |-> <<"">>, correct_answer |-> ""]

\* A well-formed question with n options, the first of which is correct.
Question(n) ==
    [question |-> "Q", options |-> [i \in 1..n |-> ToString(i)], correct_answer |-> "1"]

\* The quiz files of the model: 1..MaxQuestions questions of 0..MaxOpts options.
QuizFiles ==
    UNION {[1..len -> {Question(n) : n \in 0..MaxOpts}] : len \in 1..MaxQuestions}

\* The player list handed to set_players.
PlayerNames == [i \in 1..NumPlayers |-> "P" \o ToString(i)]

\* Quiz.load_jsonl_line(path, index), lines being the content of the file.
load_jsonl_line(path, lines, index) ==
    IF index < 0 THEN Fallback
    ELSE IF path = None THEN Fallback
    ELSE IF index < Len(lines) THEN lines[index + 1]
    ELSE Fallback

\* Quiz.get_player_name() once requires_players() has passed.
get_player_name(plist, index) ==
    IF PyIndexOk(plist, index) THEN PyGet(plist, index) ELSE ""

VARIABLES
    pc,                  \* position of run_quiz
    players,             \* QuizModel.players: None or <<the list of names>>
    quiz_file,           \* QuizModel.quiz_file: None or <<path>>
    jsonl_lines,         \* content of the quiz file on disk
    player_index,        \* Quiz.player_index
    line_index,          \* Quiz.line_index
    line,                \* Quiz.line
    results,             \* rows appended to the results file
    events,              \* the events handed to notify_listeners, in order
    listeners,           \* QuizModel.listeners: the registered listeners, in order
    received,            \* the on_event calls made, in order: [listener, e, args]
    now,                 \* last reading of the monotonic clock
    hold_timer,          \* run_quiz: hold_timer
    n_opts,              \* run_quiz: n_opts
    answer_index,        \* run_quiz: answer_index (Optional)
    current_color_index, \* run_quiz: current_color_index (Optional)
    detected_index,      \* run_quiz: detected_index (Optional)
    validated,           \* run_quiz: validated
    recent,              \* history: detections of the last two processed frames of the turn
    run_start,           \* history: clock reading of the first frame of the current
                         \*          uninterrupted run of one detection
    alt_since,           \* history: None, or <<clock reading of the turn's first processed
                         \*          frame>> while the turn's processed frames alternate
                         \*          between two different indices on every frame
    interrupted,         \* history: None, or <<c, s>> while the current run of detections
                         \*          of c (or of None) follows a run of c that began at
                         \*          clock reading s and was cut by a frame detecting None
    steady,              \* environment: the candidate every further frame of the turn shows
    since_reset,         \* history: detections of the frames since hold_timer was restarted
    validations,         \* history: frames of the turn reported validated
    records,             \* history: record_answer calls of the turn
    dc_args,             \* a call of detect_color on its own: [sign_mask, n_opts, scores]
    dc_outcome,          \* its outcome (Optional: None before the call)
    gm_args,             \* a call of get_sign_mask on its own: [contours, min_contour_area]
    gm_outcome,          \* its outcome (Optional: None before the call)
    gm_calls,            \* history: the calls of get_sign_mask made in a row, in order,
                         \*          each [args, outcome]
    cs_args,             \* a call of a surface function on its own: [fn, colors, pixels]
    cs_outcome,          \* its outcome (Optional: None before the call)
    timer_call,          \* history: the last Timer method called on hold_timer and the
                         \*          clock reading it took, None before any call
    quiz_call,           \* the last Quiz method called on its own and what it returned,
                         \*          None before any call
    hold_call,           \* history: the arguments of the last call of update_hold_timer
                         \*          on its own, None before any call
    gui,                 \* QuizControllerGUI: [current_state, selected_index, radio_btns
                         \*          (how many), destroyed (interactive_frame)]
    gui_hist,            \* history: the position of the quiz at which the radio button
                         \*          was selected, and the record_answer calls of on_next_btn
    stdin,               \* the last line input() returned to QuizControllerCLI (Optional)
    cap,                 \* QuizControllerCVCLI.cap (Optional)
    releases             \* history: calls of release_resources

quizVars == <<players, quiz_file, jsonl_lines, player_index, line_index, line, results, events,
              listeners, received>>

cvVars == <<hold_timer, n_opts, answer_index, current_color_index, detected_index, validated>>

histVars == <<recent, run_start, alt_since, interrupted, steady, since_reset, validations, records>>

ctlVars == <<gui, gui_hist, stdin, cap, releases>>

fnVars == <<dc_args, dc_outcome, gm_args, gm_outcome, gm_calls, cs_args, cs_outcome,
            timer_call, quiz_call, hold_call>>

callVars == <<dc_args, dc_outcome, gm_args, gm_outcome, gm_calls, cs_args, cs_outcome,
              timer_call, quiz_call, hold_call, ctlVars>>

\* The functions and methods that are not called on their own.
NoDetectCall ==
    /\ dc_args = [sign_mask |-> FALSE, n_opts |-> 0, scores |-> <<>>]
    /\ dc_outcome = None

NoMaskCall ==
    /\ gm_args = [contours |-> <<>>, min_contour_area |-> min_contour_area]
    /\ gm_outcome = None
    /\ gm_calls = <<>>

NoSurfaceCall ==
    /\ cs_args = [fn |-> "compute_color_surface", colors |-> <<>>, pixels |-> <<>>]
    /\ cs_outcome = None

\* QuizControllerGUI.__init__: current_state, selected_index and the frame
\* that holds the Next button.
Gui(current_state, selected_index, radio_btns, destroyed) ==
    [current_state |-> current_state, selected_index |-> selected_index,
     radio_btns |-> radio_btns, destroyed |-> destroyed]

\* The controllers as constructed: no button was clicked, no line was read,
\* no camera was created.
NoController ==
    /\ gui = Gui("BEGIN", -1, 0, FALSE)
    /\ gui_hist = [selected_at |-> None, calls |-> <<>>]
    /\ stdin = None
    /\ cap = None
    /\ releases = 0

NoCalls ==
    /\ NoDetectCall
    /\ NoMaskCall
    /\ NoSurfaceCall
    /\ timer_call = None
    /\ quiz_call = None
    /\ hold_call = None
    /\ NoController

\* The quiz and the controller while a function or an object is exercised
\* on its own: as constructed, and not run; timer is the Timer at hand.
NotRunWith(timer) ==
    /\ players = None
    /\ quiz_file = None
    /\ jsonl_lines = <<>>
    /\ player_index = -1
    /\ line_index = -1
    /\ line = Fallback
    /\ results = <<>>
    /\ events = <<>>
    /\ listeners = <<>>
    /\ received = <<>>
    /\ now = 0
    /\ hold_timer = timer
    /\ n_opts = 0
    /\ answer_index = Some(-1)
    /\ current_color_index = None
    /\ detected_index = None
    /\ validated = FALSE
    /\ recent = <<>>
    /\ run_start = 0
    /\ alt_since = None
    /\ interrupted = None
    /\ steady = None
    /\ since_reset = {}
    /\ validations = 0
    /\ records = 0

NotRun == NotRunWith(Timer(HOLD_TIME * TicksPerSecond))

vars == <<pc, now, quizVars, cvVars, histVars, callVars>>

\* The fields of a Quiz() and of a QuizControllerCVCLI(quiz) as their
\* constructors set them, and the quiz file on disk.
Fields(duration) ==
    /\ players = None
    /\ quiz_file = None
    /\ jsonl_lines \in QuizFiles
    /\ player_index = -1
    /\ line_index = -1
    /\ line = Fallback
    /\ results = <<>>
    /\ events = <<>>
    /\ listeners = <<>>
    /\ received = <<>>
    /\ now = 0
    /\ hold_timer = Timer(duration)
    /\ n_opts = 0
    /\ answer_index = Some(-1)
    /\ current_color_index = None
    /\ detected_index = None
    /\ validated = FALSE
    /\ recent = <<>>
    /\ run_start = 0
    /\ alt_since = None
    /\ interrupted = None
    /\ steady = None
    /\ since_reset = {}
    /\ validations = 0
    /\ records = 0
    /\ NoCalls

\* The state after Quiz() and QuizControllerCVCLI(quiz) have been constructed.
Constructed(duration) ==
    /\ pc = "constructed"
    /\ Fields(duration)

Init == Constructed(HOLD_TIME * TicksPerSecond)

(***************************************************************************)
(* QuizModel.notify_listeners(e, args): on_event(e, args) is called on     *)
(* every listener, in the order of self.listeners; the event joins the log *)
(* of the emitted events.  The arguments of an event are a list of strings *)
(* (empty when there are none).                                            *)
(***************************************************************************)
Event(e, args) == [e |-> e, args |-> args]

\* listener.on_event(e, args)
on_event(listener, ev) == [listener |-> listener, e |-> ev.e, args |-> ev.args]

\* Faulty variant: the listeners are called from the last registered to the first.
notify_listeners_reversed(e, args) ==
    /\ events' = Append(events, Event(e, args))
    /\ received' = received \o
            [i \in 1..Len(listeners) |->
                on_event(listeners[Len(listeners) + 1 - i], Event(e, args))]

notify_listeners(e, args) ==
    /\ events' = Append(events, Event(e, args))
    /\ received' = received \o
            [i \in 1..Len(listeners) |-> on_event(listeners[i], Event(e, args))]

\* notify_listeners called for each event of evs in turn.
NotifyEach(evs) ==
    /\ events' = events \o evs
    /\ received' = received \o
            [k \in 1..(Len(evs) * Len(listeners)) |->
                on_event(listeners[((k - 1) % Len(listeners)) + 1],
                         evs[((k - 1) \div Len(listeners)) + 1])]

\* The name of the results file (Quiz.output_file).
output_file == "quiz_results.csv"

(***************************************************************************)
(* Quiz.next_question() and Quiz.ask_next_player(): the change of the quiz *)
(* and the value ret the call returns ("True", "False", or "RuntimeError"  *)
(* when requires_players raises).                                          *)
(***************************************************************************)
\* Faulty variant: the end of the file is not noticed.
next_question_no_end(ret) ==
    LET index == line_index + 1
        loaded == load_jsonl_line(quiz_file, jsonl_lines, index)
    IN  /\ player_index' = -1
        /\ line_index' = index
        /\ line' = loaded
        /\ ret = "True"
        /\ notify_listeners("QUESTION", <<loaded.question>> \o loaded.options)

\* Faulty variant: the current player is kept from one question to the next.
next_question_keeps_player(ret) ==
    LET index == line_index + 1
        loaded == load_jsonl_line(quiz_file, jsonl_lines, index)
    IN  /\ UNCHANGED player_index
        /\ line_index' = index
        /\ line' = loaded
        /\ IF loaded.question = ""
           THEN /\ ret = "False"
                /\ UNCHANGED <<events, received>>
           ELSE /\ ret = "True"
                /\ notify_listeners("QUESTION", <<loaded.question>> \o loaded.options)

next_question(ret) ==
    LET index == line_index + 1
        loaded == load_jsonl_line(quiz_file, jsonl_lines, index)
    IN  /\ player_index' = -1
        /\ line_index' = index
        /\ line' = loaded
        /\ IF loaded.question = ""
           THEN /\ ret = "False"
                /\ UNCHANGED <<events, received>>
           ELSE /\ ret = "True"
                /\ notify_listeners("QUESTION", <<loaded.question>> \o loaded.options)

\* Faulty variant: the player after the last one is the first one again.
ask_next_player_wraps(ret) ==
    IF players = None
    THEN /\ ret = "RuntimeError"
         /\ UNCHANGED <<player_index, events, received>>
    ELSE LET index == IF player_index + 1 >= Len(players[1]) /\ Len(players[1]) > 0
                      THEN 0 ELSE player_index + 1
             name == get_player_name(players[1], index)
         IN  /\ player_index' = index
             /\ IF name = ""
                THEN /\ ret = "False"
                     /\ UNCHANGED <<events, received>>
                ELSE /\ ret = "True"
                     /\ notify_listeners("ASK_PLAYER", <<name>>)

\* Faulty variant: the player index is advanced before the players are required.
ask_next_player_advances_first(ret) ==
    IF players = None
    THEN /\ ret = "RuntimeError"
         /\ player_index' = player_index + 1
         /\ UNCHANGED <<events, received>>
    ELSE LET index == player_index + 1
             name == get_player_name(players[1], index)
         IN  /\ player_index' = index
             /\ IF name = ""
                THEN /\ ret = "False"
                     /\ UNCHANGED <<events, received>>
                ELSE /\ ret = "True"
                     /\ notify_listeners("ASK_PLAYER", <<name>>)

ask_next_player(ret) ==
    IF players = None
    THEN /\ ret = "RuntimeError"
         /\ UNCHANGED <<player_index, events, received>>
    ELSE LET index == player_index + 1
             name == get_player_name(players[1], index)
         IN  /\ player_index' = index
             /\ IF name = ""
                THEN /\ ret = "False"
                     /\ UNCHANGED <<events, received>>
                ELSE /\ ret = "True"
                     /\ notify_listeners("ASK_PLAYER", <<name>>)

\* Quiz.record_answer(answer_index) with the players set and an integer
\* answer_index: a row joins the results file when the index is a position
\* of the options.
record_answer(a) ==
    LET answer == line.options[a + 1]
    IN  IF 0 <= a /\ a < Len(line.options)
        THEN results' = Append(results,
                 [player |-> PyGet(players[1], player_index),
                  question |-> line.question,
                  answer |-> answer,
                  expected |-> line.correct_answer,
                  result |-> (answer = line.correct_answer)])
        ELSE UNCHANGED results

\* The values a Quiz method returns or the exception it raises.
QuizReturns == {"True", "False", "RuntimeError"}

\* Quiz.record_answer(answer_index) as a call: what it returns ("None") or
\* raises.  requires_players raises RuntimeError while no players are set;
\* self.players[self.player_index] raises IndexError, before anything is
\* written, when the index is not a position of the list.
Quiz_record_answer(a, ret) ==
    IF players = None
    THEN /\ ret = "RuntimeError"
         /\ UNCHANGED results
    ELSE IF ~(0 <= a /\ a < Len(line.options))
    THEN /\ ret = "None"
         /\ UNCHANGED results
    ELSE IF ~PyIndexOk(players[1], player_index)
    THEN /\ ret = "IndexError"
         /\ UNCHANGED results
    ELSE /\ ret = "None"
         /\ record_answer(a)

RecordReturns == {"None", "RuntimeError", "IndexError"}

(***************************************************************************)
(* The application sets the players before it runs the controller          *)
(* (QuizModel.set_players).                                                *)
(***************************************************************************)
SetPlayers ==
    /\ pc = "constructed"
    /\ players = None
    /\ players' = Some(PlayerNames)
    /\ UNCHANGED <<pc, now, quiz_file, jsonl_lines, listeners, player_index, line_index, line, results,
                   events, received, cvVars, histVars, callVars>>

\* self.cap = cv2.VideoCapture(0), and what isOpened() returns on it.
VideoCapture(opened) == Some([opened |-> opened])

\* release_resources(): self.cap.release(); cv2.destroyAllWindows()
release_resources == releases' = releases + 1

(***************************************************************************)
(* run_quiz up to the question loop: the hold timer is created, the quiz   *)
(* begins, the path of a readable quiz file is read and set, the camera is *)
(* opened (run_quiz returns when it is not) and the player is waited for.  *)
(***************************************************************************)
StartQuiz(camera_opened) ==
    /\ pc = "constructed"
    /\ hold_timer' = Timer(HOLD_TIME * TicksPerSecond)
    /\ quiz_file' = Some("quiz.jsonl")
    /\ cap' = VideoCapture(camera_opened)
    /\ pc' = IF camera_opened THEN "next_question" ELSE "returned"
    /\ NotifyEach(
            <<Event("BEGIN", <<>>),
              Event("INFO", <<"Specify a quiz file (.jsonl): ">>),
              Event("INFO", <<IF camera_opened THEN "Press ENTER to continue"
                                               ELSE "Cannot open camera">>)>>)
    /\ UNCHANGED <<now, players, jsonl_lines, listeners, player_index, line_index, line, results,
                   n_opts, answer_index, current_color_index, detected_index, validated,
                   histVars, fnVars, gui, gui_hist, stdin, releases>>

(***************************************************************************)
(* while self.quiz.next_question(): n_opts = len(self.quiz.get_options())  *)
(***************************************************************************)
NextQuestion ==
    /\ pc = "next_question"
    /\ \E ret \in QuizReturns :
        /\ next_question(ret)
        /\ IF ret = "True"
           THEN /\ pc' = "ask_next_player"
                /\ n_opts' = Len(line'.options)
           ELSE /\ pc' = "release"
                /\ UNCHANGED n_opts
    /\ UNCHANGED <<now, players, quiz_file, jsonl_lines, listeners, results,
                   hold_timer, answer_index, current_color_index, detected_index, validated,
                   histVars, callVars>>

(***************************************************************************)
(* while self.quiz.ask_next_player(): the turn's locals are initialised.   *)
(* ask_next_player raises RuntimeError while no players are set; run_quiz  *)
(* catches KeyboardInterrupt only.                                         *)
(***************************************************************************)
AskNextPlayer ==
    /\ pc = "ask_next_player"
    /\ \E ret \in QuizReturns :
        /\ ask_next_player(ret)
        /\ pc' = CASE ret = "True" -> "inform_player"
                   [] ret = "False" -> "next_question"
                   [] OTHER -> "crashed"
    /\ UNCHANGED <<now, players, quiz_file, jsonl_lines, listeners, line_index, line, results,
                   cvVars, histVars, callVars>>

(***************************************************************************)
(* The turn of the current player begins: player = get_player_name(),      *)
(* inform_player of the prompt, answer_index = -1,                         *)
(* current_color_index = None.                                             *)
(***************************************************************************)
BeginTurn ==
    /\ pc = "inform_player"
    /\ pc' = "frame"
    /\ notify_listeners("INFO", <<get_player_name(players[1], player_index)
                                  \o ", raise your sign to answer!">>)
    /\ answer_index' = Some(-1)
    /\ current_color_index' = None
    /\ recent' = <<>>
    /\ run_start' = now
    /\ alt_since' = None
    /\ interrupted' = None
    /\ steady' = None
    /\ validations' = 0
    /\ records' = 0
    /\ UNCHANGED <<now, players, quiz_file, jsonl_lines, listeners, player_index, line_index, line,
                   results, hold_timer, n_opts, detected_index, validated, since_reset,
                   callVars>>

(***************************************************************************)
(* One pass of the detection loop on a frame the camera delivered          *)
(* (ret true), dt ticks after the previous clock reading.  sign_mask and   *)
(* scores are what the image makes get_sign_mask and the color detectors   *)
(* report.  An exception of detect_color or of the overlay lookups         *)
(* (get_options()[detected_index], color_detectors[detected_index]) leaves *)
(* run_quiz.                                                               *)
(***************************************************************************)
FrameBody(dt, sign_mask, scores) ==
    /\ pc = "frame"
    /\ now' = now + dt
    /\ LET t == now + dt
           det == detect_color(sign_mask, n_opts, scores)
       IN  IF det.kind = "raise"
           THEN /\ steady = None
                /\ pc' = "crashed"
                /\ UNCHANGED <<cvVars, histVars>>
           ELSE LET d == det.value
                    out == update_hold_timer(d, current_color_index, hold_timer, t)
                    overlay_ok ==
                        \/ d = None
                        \/ PyIndexOk(line.options, d[1]) /\ d[1] < NumColorDetectors
                    last == Len(recent)
                    same == last > 0 /\ recent[last] = d
                    alternates ==
                        /\ d /= None
                        /\ last > 0 => (alt_since /= None /\ recent[last] /= d)
                        /\ last > 1 => recent[1] = d
                IN  /\ steady /= None => d = steady
                    /\ detected_index' = d
                    /\ current_color_index' = out.index
                    /\ validated' = out.validated
                    /\ hold_timer' = out.timer
                    /\ recent' = IF last < 2 THEN Append(recent, d) ELSE <<recent[2], d>>
                    /\ run_start' = IF same THEN run_start ELSE t
                    /\ alt_since' = IF ~alternates THEN None
                                    ELSE IF last = 0 THEN Some(t)
                                    ELSE alt_since
                    /\ interrupted' =
                           IF d = None
                           THEN IF last > 0 /\ recent[last] /= None
                                THEN <<recent[last][1], run_start>>
                                ELSE interrupted
                           ELSE IF interrupted /= None /\ interrupted[1] = d[1]
                                   /\ (same \/ recent[last] = None)
                                THEN interrupted
                                ELSE None
                    /\ steady' \in {steady} \cup (IF d = None THEN {} ELSE {d})
                    /\ since_reset' = IF out.op = "reset" THEN {d} ELSE since_reset \cup {d}
                    /\ validations' = validations + (IF out.validated THEN 1 ELSE 0)
                    /\ UNCHANGED <<n_opts, records>>
                    /\ IF ~overlay_ok
                       THEN /\ pc' = "crashed"
                            /\ UNCHANGED answer_index
                       ELSE IF out.validated
                       THEN /\ pc' = "record"
                            /\ answer_index' = out.index
                       ELSE /\ pc' = "frame"
                            /\ UNCHANGED answer_index
    /\ UNCHANGED quizVars

\* The pass in a run of the quiz.
ProcessFrame(dt, sign_mask, scores) ==
    /\ FrameBody(dt, sign_mask, scores)
    /\ UNCHANGED callVars

\* A frame from the camera of a quiz run.
CameraFrame ==
    \E dt \in 0..MaxDt, image \in FrameImages :
        /\ now + dt <= MaxTime
        /\ ProcessFrame(dt, image[1], image[2])

(***************************************************************************)
(* ret, frame = self.cap.read(); if not ret: continue                      *)
(***************************************************************************)
\* Faulty variant: a failed read is handled as a frame without detection.
FailedRead_as_lost_detection ==
    \E dt \in 0..MaxDt :
        /\ pc = "frame"
        /\ now + dt <= MaxTime
        /\ steady = None
        /\ ProcessFrame(dt, FALSE, <<>>)

FailedRead ==
    \E dt \in 0..MaxDt :
        /\ pc = "frame"
        /\ now + dt <= MaxTime
        /\ now' = now + dt
        /\ UNCHANGED <<pc, quizVars, cvVars, histVars, callVars>>

(***************************************************************************)
(* self.quiz.record_answer(answer_index) after the detection loop.         *)
(* Quiz.record_answer appends a row when 0 <= answer_index < n_opts; the   *)
(* comparison raises TypeError when answer_index is None.                  *)
(***************************************************************************)
RecordAnswer ==
    /\ pc = "record"
    /\ records' = records + 1
    /\ IF players = None \/ answer_index = None
       THEN /\ pc' = "crashed"
            /\ UNCHANGED results
       ELSE /\ pc' = "ask_next_player"
            /\ record_answer(answer_index[1])
    /\ UNCHANGED <<now, players, quiz_file, jsonl_lines, listeners, player_index, line_index, line,
                   events, received, cvVars, recent, run_start, alt_since, interrupted, steady,
                   since_reset, validations, callVars>>

(***************************************************************************)
(* self.release_resources(); self.quiz.end(...); self.wait_player(), which *)
(* prompts and waits at its input(): pc is "done" there.                   *)
(***************************************************************************)
EndQuiz ==
    /\ pc = "release"
    /\ pc' = "done"
    /\ release_resources
    /\ NotifyEach(<<Event("END", <<output_file>>),
                     Event("INFO", <<"Press ENTER to continue">>)>>)
    /\ UNCHANGED <<now, players, quiz_file, jsonl_lines, listeners, player_index, line_index, line,
                   results, cvVars, histVars, fnVars, gui, gui_hist, stdin, cap>>

Next ==
    \/ SetPlayers
    \/ \E camera_opened \in BOOLEAN : StartQuiz(camera_opened)
    \/ NextQuestion
    \/ AskNextPlayer
    \/ BeginTurn
    \/ CameraFrame
    \/ FailedRead
    \/ RecordAnswer
    \/ EndQuiz

Spec == Init /\ [][Next]_vars

(***************************************************************************)
(* The ways run_quiz ends: ENTER at the last wait_player, or ^C            *)
(* (KeyboardInterrupt) at the prompt for the quiz file, at the first       *)
(* wait_player, anywhere in the loops or at the last wait_player.          *)
(* except KeyboardInterrupt: inform_player, and release_resources() when   *)
(* self.cap is not None.                                                   *)
(***************************************************************************)
\* ENTER at the input() of the last wait_player: run_quiz returns.
PressEnter ==
    /\ pc = "done"
    /\ pc' = "finished"
    /\ UNCHANGED <<now, quizVars, cvVars, histVars, callVars>>

\* ^C at the input() of the quiz file (at_file), before the camera is
\* created, or at the input() of the first wait_player, after it was opened.
InterruptedStart(at_file) ==
    /\ pc = "constructed"
    /\ pc' = "returned"
    /\ hold_timer' = Timer(HOLD_TIME * TicksPerSecond)
    /\ IF at_file
       THEN /\ NotifyEach(<<Event("BEGIN", <<>>),
                            Event("INFO", <<"Specify a quiz file (.jsonl): ">>),
                            Event("INFO", <<"Quiz exited with ^C">>)>>)
            /\ UNCHANGED <<quiz_file, cap, releases>>
       ELSE /\ NotifyEach(<<Event("BEGIN", <<>>),
                            Event("INFO", <<"Specify a quiz file (.jsonl): ">>),
                            Event("INFO", <<"Press ENTER to continue">>),
                            Event("INFO", <<"Quiz exited with ^C">>)>>)
            /\ quiz_file' = Some("quiz.jsonl")
            /\ cap' = VideoCapture(TRUE)
            /\ release_resources
    /\ UNCHANGED <<now, players, jsonl_lines, listeners, player_index, line_index, line, results,
                   n_opts, answer_index, current_color_index, detected_index, validated,
                   histVars, fnVars, gui, gui_hist, stdin>>

\* ^C once the camera is open: in the loops or at the last wait_player.
KeyboardInterrupt ==
    /\ pc \in {"next_question", "ask_next_player", "inform_player", "frame", "record",
               "release", "done"}
    /\ pc' = "returned"
    /\ notify_listeners("INFO", <<"Quiz exited with ^C">>)
    /\ IF cap /= None THEN release_resources ELSE UNCHANGED releases
    /\ UNCHANGED <<now, players, quiz_file, jsonl_lines, listeners, player_index, line_index, line,
                   results, cvVars, histVars, fnVars, gui, gui_hist, stdin, cap>>

InitRelease == Init /\ jsonl_lines = <<Question(1)>>

NextRelease ==
    \/ Next
    \/ PressEnter
    \/ \E at_file \in BOOLEAN : InterruptedStart(at_file)
    \/ KeyboardInterrupt

SpecRelease == InitRelease /\ [][NextRelease]_vars

\* run_quiz has ended: by its last statement, or by a return.
RunQuizEnded == pc \in {"finished", "returned"}

(***************************************************************************)
(* C35 - On every path on which QuizControllerCVCLI.run_quiz ends after    *)
(* the camera was opened (the normal end of the quiz, or ^C while waiting  *)
(* for the player, during a turn or during the last wait_player),          *)
(* release_resources has been called exactly once; it is never called      *)
(* while the camera was never created.                                     *)
(***************************************************************************)
C35_ReleasedExactlyOnce ==
    /\ (RunQuizEnded /\ cap /= None /\ cap[1].opened) => releases = 1
    /\ cap = None => releases = 0

(***************************************************************************)
(* Scheduling of the detection loop: the camera keeps delivering frames,   *)
(* one clock tick after the previous read until the clock reaches the      *)
(* horizon MaxTime of the model, and without delay from then on.           *)
(***************************************************************************)
TimelyFrame ==
    \E image \in FrameImages :
        ProcessFrame(IF now < MaxTime THEN 1 ELSE 0, image[1], image[2])

\* The fair runs are those of the quizzes of one question: the detection
\* loop of a turn does not depend on the questions that follow.
InitFair == Init /\ Len(jsonl_lines) = 1

FairSpec == InitFair /\ [][Next]_vars /\ WF_vars(TimelyFrame)

\* A player's turn is in its detection loop or has just left it validated.
InTurn == pc \in {"frame", "record"}

\* At least one frame of the turn has been processed.
AfterFrame == InTurn /\ Len(recent) > 0

\* The candidates a detection can name.
Candidates == 0..(NumColorDetectors - 1)

(***************************************************************************)
(* C1 - Debounce liveness.  Once every further processed frame of a turn   *)
(* detects the same candidate c, and the clock can still reach the hold    *)
(* duration after the first frame of that run, the turn reaches the        *)
(* validation of c; a turn reports validation once; and validation is      *)
(* never reported on a frame less than the hold duration after the first   *)
(* frame of the uninterrupted run.                                         *)
(***************************************************************************)
C1_DebounceLiveness ==
    /\ (/\ pc = "frame"
        /\ steady /= None
        /\ run_start + hold_timer.duration <= MaxTime)
       ~> (/\ pc = "record"
           /\ steady /= None
           /\ validated
           /\ answer_index = steady
           /\ validations = 1)
    /\ [](InTurn => /\ validations <= 1
                    /\ (pc = "record") = (validations = 1)
                    /\ pc = "record" => now - run_start >= hold_timer.duration
                    /\ (pc = "record" /\ steady /= None) => answer_index = steady)

\* A turn validated on the very tick the hold duration elapsed, under a
\* steady detection.
C1_Witness ==
    /\ pc = "record"
    /\ steady /= None
    /\ steady = answer_index
    /\ now - run_start = hold_timer.duration
    /\ validations = 1

(***************************************************************************)
(* C2 - Debounce reset correctness.  After every processed frame: a frame  *)
(* detecting None leaves the timer stopped; a frame detecting a candidate  *)
(* leaves the timer counting from the first frame of the current           *)
(* uninterrupted run of that candidate (so the first frame after a None    *)
(* frame restarts it from zero); validation is reported only when the      *)
(* hold duration has elapsed since that first frame, whatever time earlier *)
(* runs of the same candidate accumulated.                                 *)
(***************************************************************************)
C2_ResetCorrectness ==
    AfterFrame =>
        /\ detected_index = None => ~Timer_running(hold_timer)
        /\ detected_index /= None => hold_timer.start = Some(run_start)
        /\ pc = "record" => now - run_start >= hold_timer.duration
        /\ (detected_index /= None /\ now - run_start < hold_timer.duration) => ~validated

\* The candidate is detected again after a None frame cut an earlier run of
\* it; counted from that earlier run the hold duration has elapsed, counted
\* from the current run it has not, and the frame is not validated.
C2_Witness ==
    /\ pc = "frame"
    /\ detected_index /= None
    /\ interrupted /= None
    /\ interrupted[1] = detected_index[1]
    /\ now - interrupted[2] >= hold_timer.duration
    /\ now - run_start < hold_timer.duration
    /\ hold_timer.start = Some(run_start)
    /\ ~validated

(***************************************************************************)
(* C3 - While the processed frames of a turn alternate between two         *)
(* different candidates on every frame, no frame is reported validated,    *)
(* however long the alternation lasts.                                     *)
(***************************************************************************)
C3_AlternationNeverValidates ==
    (AfterFrame /\ alt_since /= None) => (~validated /\ pc = "frame")

\* An alternation that has lasted at least twice the hold duration.
C3_Witness ==
    /\ pc = "frame"
    /\ alt_since /= None
    /\ Len(recent) = 2
    /\ recent[1] /= recent[2]
    /\ now - alt_since[1] >= 2 * hold_timer.duration
    /\ ~validated

(***************************************************************************)
(* C5 - A turn leaves its detection loop only with a validated answer and  *)
(* ends with one record_answer(i): i is the candidate detected on the      *)
(* validating frame and on every processed frame since the hold timer was  *)
(* last restarted, it is an integer other than -1, and it is a position of *)
(* the current question's options, for which a result row is written.      *)
(***************************************************************************)
C5_RecordedAnswer ==
    /\ pc = "frame" => records = 0
    /\ pc = "record" =>
            /\ records = 0
            /\ answer_index /= None
            /\ answer_index[1] /= -1
            /\ 0 <= answer_index[1]
            /\ answer_index[1] < n_opts
            /\ n_opts = Len(line.options)
            /\ answer_index = detected_index
            /\ since_reset = {answer_index}
    /\ (pc = "ask_next_player" /\ player_index >= 0) =>
            /\ records = 1
            /\ Len(results) = line_index * NumPlayers + player_index + 1
            /\ results[Len(results)].answer = line.options[answer_index[1] + 1]
            /\ results[Len(results)].player = players[1][player_index + 1]

\* The second player's turn has ended with a recorded answer.
C5_Witness ==
    /\ pc = "ask_next_player"
    /\ player_index = 1
    /\ records = 1
    /\ Len(results) = 2

(***************************************************************************)
(* C6 - At the beginning of every player's turn the debounce state is      *)
(* freshly reset: no candidate is tracked and the hold timer is not        *)
(* running.                                                                *)
(***************************************************************************)
C6_FreshDebounceState ==
    (pc = "frame" /\ Len(recent) = 0) =>
        (current_color_index = None /\ ~Timer_running(hold_timer))

(***************************************************************************)
(* C11 - A failed camera read during a turn skips the frame: the tracked   *)
(* candidate and the hold timer are as before, no detection and no hold    *)
(* update is made (the locals they assign and the histories of the         *)
(* processed frames are as before), no answer is recorded, and the turn    *)
(* stays in its detection loop.                                            *)
(***************************************************************************)
C11_FailedReadSkipsFrame ==
    [][FailedRead =>
        /\ pc' = "frame"
        /\ UNCHANGED <<current_color_index, hold_timer, answer_index>>
        /\ UNCHANGED <<detected_index, validated, recent, since_reset, validations>>
        /\ UNCHANGED <<results, records>>]_vars

\* Reads have failed for the whole hold duration after the one processed
\* frame of the turn, which detected a candidate: the candidate is still
\* tracked, the timer still counts from that frame, nothing is validated.
C11_Witness ==
    /\ pc = "frame"
    /\ Len(recent) = 1
    /\ recent[1] /= None
    /\ current_color_index = recent[1]
    /\ hold_timer.start = Some(run_start)
    /\ now - run_start >= hold_timer.duration
    /\ ~validated
    /\ records = 0

(***************************************************************************)
(* C27 - Invariant of the turn loop of run_quiz.  After every processed    *)
(* frame of a turn the tracked candidate is None if and only if the hold   *)
(* timer is not running, and validated is True only on a frame whose       *)
(* detected index is the tracked candidate (the one the frame before       *)
(* detected and the one tracked after the frame) while the timer is        *)
(* running and expired.                                                    *)
(***************************************************************************)
C27_TurnLoopInvariant ==
    (pc \in {"frame", "record", "crashed"} /\ Len(recent) > 0) =>
        /\ current_color_index = None <=> ~Timer_running(hold_timer)
        /\ validated =>
                /\ detected_index /= None
                /\ detected_index = current_color_index
                /\ Len(recent) = 2
                /\ recent[1] = detected_index
                /\ Timer_running(hold_timer)
                /\ Timer_expired(hold_timer, now)

\* The second player's turn, begun with the timer of the first turn still
\* running, is validated.
C27_Witness ==
    /\ pc = "record"
    /\ player_index = 1
    /\ validated
    /\ detected_index = current_color_index
    /\ Timer_running(hold_timer)
    /\ Timer_expired(hold_timer, now)

(***************************************************************************)
(* One turn of the detection loop watched frame by frame: the first turn   *)
(* of a quiz of one question, from its first camera read to                *)
(* record_answer.  dc_args and dc_outcome keep the detect_color call of    *)
(* the last processed frame.                                               *)
(***************************************************************************)
\* What a frame shows in the watched turn: no sign; a sign whose colors are
\* all above the floor; a sign with one of the first two colors above it.
TurnImages ==
    {<<FALSE, [k \in 1..NumColorDetectors |-> min_color_area + 1]>>}
    \cup {<<TRUE, [k \in 1..NumColorDetectors |->
                    IF k = c THEN min_color_area + 1 ELSE min_color_area]>> : c \in 1..2}

InitTurn ==
    \E n \in 0..MaxOpts :
        /\ pc = "frame"
        /\ players = Some(PlayerNames)
        /\ quiz_file = Some("quiz.jsonl")
        /\ jsonl_lines = <<Question(n)>>
        /\ player_index = 0
        /\ line_index = 0
        /\ line = Question(n)
        /\ results = <<>>
        /\ events = <<Event("BEGIN", <<>>),
                      Event("INFO", <<"Specify a quiz file (.jsonl): ">>),
                      Event("INFO", <<"Press ENTER to continue">>),
                      Event("QUESTION", <<Question(n).question>> \o Question(n).options),
                      Event("ASK_PLAYER", <<PlayerNames[1]>>),
                      Event("INFO", <<PlayerNames[1] \o ", raise your sign to answer!">>)>>
        /\ listeners = <<>>
        /\ received = <<>>
        /\ now = 0
        /\ hold_timer = Timer(HOLD_TIME * TicksPerSecond)
        /\ n_opts = n
        /\ answer_index = Some(-1)
        /\ current_color_index = None
        /\ detected_index = None
        /\ validated = FALSE
        /\ recent = <<>>
        /\ run_start = 0
        /\ alt_since = None
        /\ interrupted = None
        /\ steady = None
        /\ since_reset = {}
        /\ validations = 0
        /\ records = 0
        /\ NoCalls

TurnFrame ==
    \E dt \in 0..MaxDt, image \in TurnImages :
        /\ now + dt <= MaxTime
        /\ FrameBody(dt, image[1], image[2])
        /\ dc_args' = [sign_mask |-> image[1], n_opts |-> n_opts, scores |-> image[2]]
        /\ dc_outcome' = Some(detect_color(image[1], n_opts, image[2]))
        /\ UNCHANGED <<gm_args, gm_outcome, gm_calls, cs_args, cs_outcome,
                       timer_call, quiz_call, hold_call, ctlVars>>

NextTurn ==
    \/ TurnFrame
    \/ RecordAnswer

SpecTurn == InitTurn /\ [][NextTurn]_vars

\* The last processed frame of the turn showed no valid contour:
\* get_sign_mask returned None.
NoContourFrame == dc_outcome /= None /\ ~dc_args.sign_mask

(***************************************************************************)
(* C26 - When get_sign_mask returns None, detect_color returns None and    *)
(* evaluates no color detector; the frame takes the None transition of the *)
(* debounce (no candidate tracked, timer stopped, not validated); nothing  *)
(* is raised and nothing is recorded: the turn stays in its detection      *)
(* loop.                                                                   *)
(***************************************************************************)
C26_NoContourIsNoDetection ==
    NoContourFrame =>
        /\ dc_outcome[1].kind = "return"
        /\ dc_outcome[1].value = None
        /\ dc_outcome[1].invoked = {}
        /\ detected_index = None
        /\ current_color_index = None
        /\ ~Timer_running(hold_timer)
        /\ ~validated
        /\ pc = "frame"
        /\ records = 0
        /\ results = <<>>

\* The contour is lost on the very frame on which the candidate, detected
\* for the hold duration, would have been validated.
C26_Witness ==
    /\ NoContourFrame
    /\ Len(recent) = 2
    /\ recent[1] /= None
    /\ recent[2] = None
    /\ interrupted /= None
    /\ now - interrupted[2] >= hold_timer.duration
    /\ current_color_index = None
    /\ ~Timer_running(hold_timer)
    /\ pc = "frame"

(***************************************************************************)
(* The fixed-rate scenario: the first turn of a quiz whose clock ticks FPS *)
(* times per second (one tick per frame), every frame read and processed,  *)
(* a sign of one candidate shown from the first frame on.  The scenario    *)
(* lasts HOLD_TIME + 0.1 seconds.                                          *)
(***************************************************************************)
ScenarioFrames == HOLD_TIME * FPS + FPS \div 10

\* Frames of the turn processed so far: frame k is processed at reading k - 1.
FramesProcessed == IF recent = <<>> THEN 0 ELSE now + 1

InitFps ==
    \E n \in 1..MaxOpts, c \in Candidates :
        /\ c < n
        /\ pc = "frame"
        /\ players = Some(PlayerNames)
        /\ quiz_file = Some("quiz.jsonl")
        /\ jsonl_lines = <<Question(n)>>
        /\ player_index = 0
        /\ line_index = 0
        /\ line = Question(n)
        /\ results = <<>>
        /\ events = <<Event("BEGIN", <<>>),
                      Event("INFO", <<"Specify a quiz file (.jsonl): ">>),
                      Event("INFO", <<"Press ENTER to continue">>),
                      Event("QUESTION", <<Question(n).question>> \o Question(n).options),
                      Event("ASK_PLAYER", <<PlayerNames[1]>>),
                      Event("INFO", <<PlayerNames[1] \o ", raise your sign to answer!">>)>>
        /\ listeners = <<>>
        /\ received = <<>>
        /\ now = 0
        /\ hold_timer = Timer(HOLD_TIME * FPS)
        /\ n_opts = n
        /\ answer_index = Some(-1)
        /\ current_color_index = None
        /\ detected_index = None
        /\ validated = FALSE
        /\ recent = <<>>
        /\ run_start = 0
        /\ alt_since = None
        /\ interrupted = None
        /\ steady = Some(c)
        /\ since_reset = {}
        /\ validations = 0
        /\ records = 0
        /\ NoCalls

FpsFrame ==
    /\ FramesProcessed < ScenarioFrames
    /\ \E image \in FrameImages :
        ProcessFrame(IF FramesProcessed = 0 THEN 0 ELSE 1, image[1], image[2])

NextFps == FpsFrame

SpecFps == InitFps /\ [][NextFps]_vars

(***************************************************************************)
(* C4 - At a fixed frame rate, with the same candidate detected from the   *)
(* first frame of the turn, validation is reported within the frames of    *)
(* HOLD_TIME + 0.1 seconds (63 at 30 frames per second), on a frame at or  *)
(* after frame number HOLD_TIME * FPS (the 60th) and on no earlier frame.  *)
(***************************************************************************)
C4_FixedRateHold ==
    /\ pc = "frame" => (~validated /\ FramesProcessed < ScenarioFrames)
    /\ pc /= "frame" =>
            /\ pc = "record"
            /\ validated
            /\ answer_index = steady
            /\ FramesProcessed >= HOLD_TIME * FPS
            /\ FramesProcessed <= ScenarioFrames

\* Validation on the first frame at which HOLD_TIME has elapsed since the
\* first matching frame.
C4_Witness ==
    /\ pc = "record"
    /\ validated
    /\ FramesProcessed = HOLD_TIME * FPS + 1
    /\ now - run_start = hold_timer.duration

(***************************************************************************)
(* detect_color on its own: one call on arguments drawn from               *)
(*   sign_mask : present or not,                                           *)
(*   n_opts    : 0..MaxDetectors + 1,                                      *)
(*   scores    : the scores of a detector list of 0..MaxDetectors entries. *)
(***************************************************************************)
DetectArgs ==
    {[sign_mask |-> m, n_opts |-> n, scores |-> sc] :
        m \in BOOLEAN,
        n \in 0..(MaxDetectors + 1),
        sc \in UNION {[1..len -> ScoreValues] : len \in 0..MaxDetectors}}

InitDetect ==
    /\ pc = "detect_color"
    /\ players = None
    /\ quiz_file = None
    /\ jsonl_lines = <<>>
    /\ player_index = -1
    /\ line_index = -1
    /\ line = Fallback
    /\ results = <<>>
    /\ events = <<>>
    /\ listeners = <<>>
    /\ received = <<>>
    /\ now = 0
    /\ hold_timer = Timer(HOLD_TIME * TicksPerSecond)
    /\ n_opts = 0
    /\ answer_index = Some(-1)
    /\ current_color_index = None
    /\ detected_index = None
    /\ validated = FALSE
    /\ recent = <<>>
    /\ run_start = 0
    /\ alt_since = None
    /\ interrupted = None
    /\ steady = None
    /\ since_reset = {}
    /\ validations = 0
    /\ records = 0
    /\ dc_args \in DetectArgs
    /\ dc_outcome = None
    /\ gm_args = [contours |-> <<>>, min_contour_area |-> min_contour_area]
    /\ gm_outcome = None
    /\ gm_calls = <<>>
    /\ cs_args = [fn |-> "compute_color_surface", colors |-> <<>>, pixels |-> <<>>]
    /\ cs_outcome = None
    /\ timer_call = None
    /\ quiz_call = None
    /\ hold_call = None
    /\ NoController

DetectColorCall ==
    /\ pc = "detect_color"
    /\ dc_outcome' = Some(detect_color(dc_args.sign_mask, dc_args.n_opts, dc_args.scores))
    /\ pc' = "detect_color_done"
    /\ UNCHANGED <<now, quizVars, cvVars, histVars, dc_args,
                   gm_args, gm_outcome, cs_args, cs_outcome, timer_call, quiz_call, gm_calls,
                   hold_call, ctlVars>>

NextDetect == DetectColorCall

SpecDetect == InitDetect /\ [][NextDetect]_vars

\* detect_color has been called and left this outcome.
Called == dc_outcome /= None

Outcome == dc_outcome[1]

\* The scores of the candidates detect_color is to evaluate: those of the
\* first n_opts detectors.
EvaluatedScores ==
    {dc_args.scores[k] : k \in 1..Min(dc_args.n_opts, Len(dc_args.scores))}

\* The positions (from 0) of the evaluated candidates with the top score.
TopPositions ==
    {k - 1 : k \in {j \in 1..Min(dc_args.n_opts, Len(dc_args.scores)) :
                        \A x \in EvaluatedScores : dc_args.scores[j] >= x}}

TopScore == CHOOSE m \in EvaluatedScores : \A x \in EvaluatedScores : m >= x

(***************************************************************************)
(* C7 - detect_color invokes no detector at a position >= n_opts, and a    *)
(* value it returns is None or an index i with 0 <= i < n_opts that is     *)
(* also a position of color_detectors.                                     *)
(***************************************************************************)
C7_DetectColorRange ==
    Called =>
        /\ \A k \in Outcome.invoked : 0 <= k /\ k < dc_args.n_opts /\ k < Len(dc_args.scores)
        /\ (Outcome.kind = "return" /\ Outcome.value /= None) =>
                /\ 0 <= Outcome.value[1]
                /\ Outcome.value[1] < dc_args.n_opts
                /\ Outcome.value[1] < Len(dc_args.scores)

\* An index is returned although a detector beyond n_opts would have scored
\* higher than the returned candidate.
C7_Witness ==
    /\ Called
    /\ Outcome.kind = "return"
    /\ Outcome.value /= None
    /\ dc_args.n_opts < Len(dc_args.scores)
    /\ dc_args.scores[dc_args.n_opts + 1] > dc_args.scores[Outcome.value[1] + 1]

(***************************************************************************)
(* C8 - Area floor boundary: with a sign mask present and at least one     *)
(* candidate evaluated, the result is None when the top score is           *)
(* min_color_area or less, and a candidate index when it is                *)
(* min_color_area + 1 or more.                                             *)
(***************************************************************************)
C8_AreaFloorBoundary ==
    (Called /\ dc_args.sign_mask /\ EvaluatedScores /= {}) =>
        /\ Outcome.kind = "return"
        /\ TopScore <= min_color_area => Outcome.value = None
        /\ TopScore >= min_color_area + 1 => Outcome.value /= None

\* A top score exactly at the floor is rejected.
C8_Witness ==
    /\ Called
    /\ dc_args.sign_mask
    /\ EvaluatedScores /= {}
    /\ TopScore = min_color_area
    /\ Outcome = Returned(None, Outcome.invoked)

(***************************************************************************)
(* C9 - Tie-break: when the top score of the evaluated candidates exceeds  *)
(* min_color_area, the returned index is the smallest position holding the *)
(* top score.                                                              *)
(***************************************************************************)
C9_TieBreakLowestIndex ==
    (Called /\ dc_args.sign_mask /\ EvaluatedScores /= {} /\ TopScore > min_color_area) =>
        /\ Outcome.kind = "return"
        /\ Outcome.value /= None
        /\ Outcome.value[1] \in TopPositions
        /\ \A k \in TopPositions : Outcome.value[1] <= k

\* Two candidates share the top score above the floor.
C9_Witness ==
    /\ Called
    /\ dc_args.sign_mask
    /\ EvaluatedScores /= {}
    /\ TopScore > min_color_area
    /\ Cardinality(TopPositions) >= 2
    /\ Outcome.kind = "return"
    /\ Outcome.value /= None
    /\ \A k \in TopPositions : Outcome.value[1] <= k

(***************************************************************************)
(* C10 - detect_color never raises: with a sign mask present and no        *)
(* candidate configured or active (n_opts = 0 or an empty detector list)   *)
(* it returns None.                                                        *)
(***************************************************************************)
C10_NoCandidateNoDetection ==
    (Called /\ dc_args.sign_mask /\ (dc_args.n_opts = 0 \/ Len(dc_args.scores) = 0)) =>
        (Outcome.kind = "return" /\ Outcome.value = None)

(***************************************************************************)
(* quiz/cv/cv_utils.py: get_sign_mask(image, config), from the contours    *)
(* cv2.findContours extracts on.  contours[k + 1] is the area              *)
(* (cv2.contourArea) of the contour at position k.  The result is None or  *)
(* <<k>>: the mask filled with the contour at position k.                  *)
(***************************************************************************)
\* Faulty variant: a largest area equal to the floor is accepted.
get_sign_mask_floor_inclusive(contours, min_area) ==
    IF Len(contours) = 0 THEN None
    ELSE LET largest_contour == ListIndex(contours, SeqMax(contours))
         IN  IF contours[largest_contour + 1] < min_area THEN None
             ELSE Some(largest_contour)

\* Faulty variant: the mask of the previous call is kept while a candidate is
\* tracked and the image shows no valid contour.
get_sign_mask_keeps_last(contours, min_area) ==
    LET found == IF Len(contours) = 0 THEN None
                 ELSE LET largest_contour == ListIndex(contours, SeqMax(contours))
                      IN  IF contours[largest_contour + 1] <= min_area THEN None
                          ELSE Some(largest_contour)
    IN  IF found = None /\ current_color_index /= None /\ gm_calls /= <<>>
        THEN gm_calls[Len(gm_calls)].outcome
        ELSE found

get_sign_mask(contours, min_area) ==
    IF Len(contours) = 0 THEN None
    ELSE LET largest_contour == ListIndex(contours, SeqMax(contours))
         IN  IF contours[largest_contour + 1] <= min_area THEN None
             ELSE Some(largest_contour)

\* Largest number of contours found in an image.
MaxContours == 2

\* Contour areas around the two floors of the scenario.
AreaValues == {min_contour_area - 1, min_contour_area, min_contour_area + 1,
               6000, 7000, 7001}

\* The floors MaskConfig is configured with: the default and a higher one.
ContourFloors == {min_contour_area, 7000}

MaskArgs ==
    {[contours |-> cs, min_contour_area |-> m] :
        cs \in UNION {[1..len -> AreaValues] : len \in 0..MaxContours},
        m \in ContourFloors}

InitMask ==
    /\ pc = "get_sign_mask"
    /\ NotRun
    /\ NoDetectCall
    /\ gm_args \in MaskArgs
    /\ gm_outcome = None
    /\ gm_calls = <<>>
    /\ NoSurfaceCall
    /\ timer_call = None
    /\ quiz_call = None
    /\ hold_call = None
    /\ NoController

GetSignMaskCall ==
    /\ pc = "get_sign_mask"
    /\ gm_outcome' = Some(get_sign_mask(gm_args.contours, gm_args.min_contour_area))
    /\ pc' = "get_sign_mask_done"
    /\ UNCHANGED <<now, quizVars, cvVars, histVars, dc_args, dc_outcome, gm_args,
                   cs_args, cs_outcome, timer_call, quiz_call, gm_calls,
                   hold_call, ctlVars>>

NextMask == GetSignMaskCall

SpecMask == InitMask /\ [][NextMask]_vars

\* get_sign_mask has been called and returned this mask.
MaskCalled == gm_outcome /= None

Mask == gm_outcome[1]

\* The areas of the contours found, as a set.
ContourAreas == {gm_args.contours[k] : k \in 1..Len(gm_args.contours)}

\* The positions (from 0) of the contours no other contour exceeds in area.
LargestContours ==
    {k - 1 : k \in {j \in 1..Len(gm_args.contours) :
                        \A a \in ContourAreas : gm_args.contours[j] >= a}}

(***************************************************************************)
(* C12 - get_sign_mask returns None when no contour is found or when the   *)
(* largest contour area is min_contour_area or less; otherwise it returns  *)
(* the filled mask of one contour, a contour of the largest area.  One     *)
(* shape of area 6000 gives its mask with min_contour_area = 5000 and None *)
(* with min_contour_area = 7000.                                           *)
(***************************************************************************)
C12_SignMaskOfLargestContour ==
    MaskCalled =>
        /\ (\/ ContourAreas = {}
            \/ \A a \in ContourAreas : a <= gm_args.min_contour_area) <=> Mask = None
        /\ Mask /= None => Mask[1] \in LargestContours
        /\ gm_args.contours = <<6000>> =>
                /\ gm_args.min_contour_area = 5000 => Mask = Some(0)
                /\ gm_args.min_contour_area = 7000 => Mask = None

\* A smaller contour comes first, the largest one is just above the floor
\* and its mask is returned.
C12_Witness ==
    /\ MaskCalled
    /\ Len(gm_args.contours) = 2
    /\ gm_args.contours[1] < gm_args.contours[2]
    /\ gm_args.contours[2] = gm_args.min_contour_area + 1
    /\ Mask = Some(1)

(***************************************************************************)
(* get_sign_mask called several times in the life of a controller: between *)
(* the calls the debounce moves (update_hold_timer on a detection or on    *)
(* none) and the quiz moves (next_question).  gm_calls keeps every call:   *)
(* its arguments as the call leaves them, its result, and the tracked      *)
(* candidate and the line index at the time of the call.                   *)
(***************************************************************************)
\* Largest number of calls of get_sign_mask in a row.
MaxMaskCalls == 3

\* The images and configurations of these calls: no contour, and one shape
\* of area 6000 under either floor.
RepeatedMaskArgs ==
    {[contours |-> <<>>, min_contour_area |-> min_contour_area],
     [contours |-> <<6000>>, min_contour_area |-> min_contour_area],
     [contours |-> <<6000>>, min_contour_area |-> 7000]}

InitMaskCalls ==
    /\ pc = "mask_calls"
    /\ players = Some(PlayerNames)
    /\ quiz_file = Some("quiz.jsonl")
    /\ jsonl_lines = <<Question(1)>>
    /\ player_index = -1
    /\ line_index = -1
    /\ line = Fallback
    /\ results = <<>>
    /\ events = <<>>
    /\ listeners = <<>>
    /\ received = <<>>
    /\ now = 0
    /\ hold_timer = Timer(HOLD_TIME * TicksPerSecond)
    /\ n_opts = 0
    /\ answer_index = Some(-1)
    /\ current_color_index = None
    /\ detected_index = None
    /\ validated = FALSE
    /\ recent = <<>>
    /\ run_start = 0
    /\ alt_since = None
    /\ interrupted = None
    /\ steady = None
    /\ since_reset = {}
    /\ validations = 0
    /\ records = 0
    /\ NoCalls

\* sign_mask = get_sign_mask(roi, self.mask_config)
MaskCall(args) ==
    /\ pc = "mask_calls"
    /\ Len(gm_calls) < MaxMaskCalls
    /\ LET mask == get_sign_mask(args.contours, args.min_contour_area)
       IN  /\ gm_args' = args
           /\ gm_outcome' = Some(mask)
           /\ gm_calls' = Append(gm_calls,
                    [args |-> args, outcome |-> mask,
                     tracked |-> current_color_index, line_index |-> line_index])
    /\ UNCHANGED <<pc, now, quizVars, cvVars, histVars, dc_args, dc_outcome,
                   cs_args, cs_outcome, timer_call, quiz_call, hold_call, ctlVars>>

\* The debounce moves: update_hold_timer on what a frame detected.
MaskCallsHoldUpdate(d) ==
    /\ pc = "mask_calls"
    /\ LET out == update_hold_timer(d, current_color_index, hold_timer, now)
       IN  /\ detected_index' = d
           /\ current_color_index' = out.index
           /\ validated' = out.validated
           /\ hold_timer' = out.timer
    /\ UNCHANGED <<pc, now, quizVars, n_opts, answer_index, histVars, callVars>>

\* The quiz moves: next_question, up to the end of the file.
MaskCallsNextQuestion ==
    /\ pc = "mask_calls"
    /\ line_index < Len(jsonl_lines)
    /\ \E ret \in QuizReturns : next_question(ret)
    /\ UNCHANGED <<pc, now, players, quiz_file, jsonl_lines, listeners, results,
                   cvVars, histVars, callVars>>

NextMaskCalls ==
    \/ \E args \in RepeatedMaskArgs : MaskCall(args)
    \/ \E d \in {None, Some(0)} : MaskCallsHoldUpdate(d)
    \/ MaskCallsNextQuestion

SpecMaskCalls == InitMaskCalls /\ [][NextMaskCalls]_vars

\* The step is a call of get_sign_mask.
MaskCallStep == gm_calls' /= gm_calls

HoldDetections == {None, Some(0), Some(1)}

InitHold ==
    /\ pc = "hold"
    /\ NotRun
    /\ NoCalls

HoldCall(d) ==
    /\ pc \in {"hold", "hold_called"}
    /\ pc' = "hold_called"
    /\ LET out == update_hold_timer(d, current_color_index, hold_timer, now)
       IN  /\ detected_index' = d
           /\ current_color_index' = out.index
           /\ validated' = out.validated
           /\ hold_timer' = out.timer
    /\ hold_call' = Some([detected_index |-> d,
                          current_color_index |-> current_color_index,
                          timer |-> hold_timer,
                          at |-> now])
    /\ UNCHANGED <<now, quizVars, n_opts, answer_index, histVars, dc_args, dc_outcome,
                   gm_args, gm_outcome, gm_calls, cs_args, cs_outcome, timer_call, quiz_call,
                   ctlVars>>

\* time.monotonic() reads later at the next frame.
HoldClockAdvance ==
    \E dt \in 1..MaxDt :
        /\ pc \in {"hold", "hold_called"}
        /\ now + dt <= MaxTime
        /\ pc' = "hold"
        /\ now' = now + dt
        /\ UNCHANGED <<quizVars, cvVars, histVars, callVars>>

\* The next turn begins: answer_index = -1; current_color_index = None.
HoldBeginTurn ==
    /\ pc \in {"hold", "hold_called"}
    /\ current_color_index /= None
    /\ pc' = "hold"
    /\ answer_index' = Some(-1)
    /\ current_color_index' = None
    /\ UNCHANGED <<now, quizVars, hold_timer, n_opts, detected_index, validated,
                   histVars, callVars>>

NextHold ==
    \/ \E d \in HoldDetections : HoldCall(d)
    \/ HoldClockAdvance
    \/ HoldBeginTurn

SpecHold == InitHold /\ [][NextHold]_vars

\* update_hold_timer has just returned; Before holds its arguments.
HoldCalled == pc = "hold_called" /\ hold_call /= None

Before == hold_call[1]

(***************************************************************************)
(* C23 - update_hold_timer with detected_index = None, whatever the state  *)
(* before (no candidate, or a candidate tracked with a running or an       *)
(* expired timer), returns (None, False) and leaves the timer not running. *)
(***************************************************************************)
C23_NoneDiscardsHold ==
    (HoldCalled /\ Before.detected_index = None) =>
        /\ current_color_index = None
        /\ validated = FALSE
        /\ ~Timer_running(hold_timer)
        /\ hold_timer.start = None

\* The detection was lost while a candidate was tracked and its timer had
\* expired.
C23_Witness ==
    /\ HoldCalled
    /\ Before.detected_index = None
    /\ Before.current_color_index /= None
    /\ Timer_expired(Before.timer, Before.at)
    /\ current_color_index = None
    /\ ~validated
    /\ ~Timer_running(hold_timer)

(***************************************************************************)
(* C24 - update_hold_timer with a detected index d other than the tracked  *)
(* candidate (None or another index) returns (d, False) and restarts the   *)
(* timer from zero at the current instant; it does not report validated on *)
(* that call, even when the timer of the candidate tracked before had      *)
(* expired.                                                                *)
(***************************************************************************)
C24_NewCandidateRestarts ==
    (HoldCalled /\ Before.detected_index /= None
        /\ Before.detected_index /= Before.current_color_index) =>
        /\ current_color_index = Before.detected_index
        /\ validated = FALSE
        /\ hold_timer.start = Some(Before.at)
        /\ hold_timer.duration = Before.timer.duration
        /\ Timer_running(hold_timer)
        /\ hold_timer.duration > 0 => ~Timer_expired(hold_timer, Before.at)

\* Another candidate is detected when the timer of the tracked one had expired.
C24_Witness ==
    /\ HoldCalled
    /\ Before.detected_index /= None
    /\ Before.current_color_index /= None
    /\ Before.detected_index /= Before.current_color_index
    /\ Timer_expired(Before.timer, Before.at)
    /\ Before.timer.start /= Some(Before.at)
    /\ current_color_index = Before.detected_index
    /\ ~validated
    /\ hold_timer.start = Some(now)

(***************************************************************************)
(* C25 - update_hold_timer with a detected index equal to the tracked      *)
(* candidate leaves the tracked candidate and the start instant of the     *)
(* timer as they were (the timer is neither restarted nor stopped) and     *)
(* returns validated = True exactly when the timer is expired at that      *)
(* instant.                                                                *)
(***************************************************************************)
C25_SameCandidateKeepsTimer ==
    (HoldCalled /\ Before.detected_index /= None
        /\ Before.detected_index = Before.current_color_index) =>
        /\ current_color_index = Before.current_color_index
        /\ hold_timer = Before.timer
        /\ validated <=> Timer_expired(Before.timer, Before.at)

\* The tracked candidate is detected again one tick before its timer expires:
\* not validated, the timer still counting from its start.
C25_Witness ==
    /\ HoldCalled
    /\ Before.detected_index /= None
    /\ Before.detected_index = Before.current_color_index
    /\ Timer_running(hold_timer)
    /\ now - hold_timer.start[1] = hold_timer.duration - 1
    /\ ~validated

(***************************************************************************)
(* A Timer on its own: constructed with a duration of 0..MaxDuration       *)
(* ticks, then start, reset and stop are called in any order while the     *)
(* monotonic clock advances.  timer_call remembers the last of these calls *)
(* and the clock reading it took.                                          *)
(***************************************************************************)
\* Largest duration a Timer is constructed with, in ticks.
MaxDuration == 3

TimerCall(method, at) == Some([method |-> method, at |-> at])

InitTimer ==
    /\ pc = "timer"
    /\ \E duration \in 0..MaxDuration : NotRunWith(Timer(duration))
    /\ NoCalls

TimerStart ==
    /\ pc = "timer"
    /\ hold_timer' = Timer_start(hold_timer, now)
    /\ timer_call' = TimerCall("start", now)
    /\ UNCHANGED <<pc, now, quizVars, n_opts, answer_index, current_color_index,
                   detected_index, validated, histVars, dc_args, dc_outcome,
                   gm_args, gm_outcome, cs_args, cs_outcome, quiz_call, gm_calls,
                   hold_call, ctlVars>>

TimerReset ==
    /\ pc = "timer"
    /\ hold_timer' = Timer_reset(hold_timer, now)
    /\ timer_call' = TimerCall("reset", now)
    /\ UNCHANGED <<pc, now, quizVars, n_opts, answer_index, current_color_index,
                   detected_index, validated, histVars, dc_args, dc_outcome,
                   gm_args, gm_outcome, cs_args, cs_outcome, quiz_call, gm_calls,
                   hold_call, ctlVars>>

TimerStop ==
    /\ pc = "timer"
    /\ hold_timer' = Timer_stop(hold_timer)
    /\ timer_call' = TimerCall("stop", now)
    /\ UNCHANGED <<pc, now, quizVars, n_opts, answer_index, current_color_index,
                   detected_index, validated, histVars, dc_args, dc_outcome,
                   gm_args, gm_outcome, cs_args, cs_outcome, quiz_call, gm_calls,
                   hold_call, ctlVars>>

\* time.monotonic() reads later.
ClockAdvance ==
    \E dt \in 1..MaxDt :
        /\ pc = "timer"
        /\ now + dt <= MaxTime
        /\ now' = now + dt
        /\ UNCHANGED <<pc, quizVars, cvVars, histVars, callVars>>

NextTimer ==
    \/ TimerStart
    \/ TimerReset
    \/ TimerStop
    \/ ClockAdvance

SpecTimer == InitTimer /\ [][NextTimer]_vars

\* The last call was start or reset: the timer was started and not stopped since.
StartedAndNotStopped ==
    /\ timer_call /= None
    /\ timer_call[1].method \in {"start", "reset"}

(***************************************************************************)
(* C13 - Over every sequence of start, reset and stop calls and clock      *)
(* advances: running() is true exactly after a start or reset that no stop *)
(* followed; expired() is true exactly when the timer is running and the   *)
(* time since the last start or reset is the duration or more; a stopped   *)
(* or never started timer is not expired.                                  *)
(***************************************************************************)
C13_TimerInvariant ==
    pc = "timer" =>
        /\ Timer_running(hold_timer) <=> StartedAndNotStopped
        /\ Timer_running(hold_timer) <=> hold_timer.start /= None
        /\ Timer_expired(hold_timer, now) <=>
                (StartedAndNotStopped /\ now - timer_call[1].at >= hold_timer.duration)
        /\ ~StartedAndNotStopped => ~Timer_expired(hold_timer, now)

\* The timer was stopped after its duration had elapsed: it is not expired.
C13_Witness ==
    /\ pc = "timer"
    /\ timer_call /= None
    /\ timer_call[1].method = "stop"
    /\ hold_timer.duration > 0
    /\ timer_call[1].at >= hold_timer.duration
    /\ now > timer_call[1].at
    /\ ~Timer_running(hold_timer)
    /\ ~Timer_expired(hold_timer, now)

\* a <= b for two returned ratios.
RatioLeq(a, b) == a.num * b.den <= b.num * a.den

(***************************************************************************)
(* C14 - For a Timer of any configured duration, progress() returns a      *)
(* value between 0.0 and 1.0: 0.0 when the timer is not running, 1.0       *)
(* exactly when the timer is expired, and non-decreasing as the clock      *)
(* advances while the timer runs.                                          *)
(***************************************************************************)
C14_ProgressRange ==
    /\ [](pc = "timer" =>
            LET progress == Timer_progress(hold_timer, now)
            IN  /\ progress.kind = "return"
                /\ RatioLeq(Ratio(0, 1), progress)
                /\ RatioLeq(progress, Ratio(1, 1))
                /\ ~Timer_running(hold_timer) => progress = Ratio(0, 1)
                /\ Timer_expired(hold_timer, now) <=> progress = Ratio(1, 1))
    /\ [][(pc = "timer" /\ Timer_running(hold_timer) /\ hold_timer' = hold_timer) =>
                RatioLeq(Timer_progress(hold_timer, now), Timer_progress(hold_timer', now'))]_vars

(***************************************************************************)
(* The applications (tests/test.py, main/main.py): main() constructs the   *)
(* quiz, then the controller, and runs it.  Quiz.__init__(self) takes no   *)
(* argument besides self: a call with more positional arguments raises     *)
(* TypeError before the body runs.  args is the list of the arguments of   *)
(* the call.                                                               *)
(***************************************************************************)
Quiz_init(args) ==
    IF Len(args) > 0
    THEN [raised |-> "TypeError", players |-> None, player_index |-> -1, line_index |-> -1]
    ELSE [raised |-> "", players |-> None, player_index |-> -1, line_index |-> -1]

QuizCall(method, args, ret) == Some([method |-> method, args |-> args, ret |-> ret])

InitMain ==
    /\ pc = "main"
    /\ Fields(HOLD_TIME * TicksPerSecond)

\* quiz = qd.Quiz(...), then the controller is constructed on it.
ConstructQuiz(args) ==
    /\ pc = "main"
    /\ LET quiz == Quiz_init(args)
       IN  /\ quiz_call' = QuizCall("__init__", args,
                                    IF quiz.raised = "" THEN "None" ELSE quiz.raised)
           /\ pc' = IF quiz.raised = "" THEN "constructed" ELSE "crashed"
           /\ players' = quiz.players
           /\ player_index' = quiz.player_index
           /\ line_index' = quiz.line_index
    /\ UNCHANGED <<now, quiz_file, jsonl_lines, listeners, line, results, events, received, cvVars, histVars,
                   dc_args, dc_outcome, gm_args, gm_outcome, cs_args, cs_outcome,
                   timer_call, gm_calls,
                   hold_call, ctlVars>>

NextMain ==
    \/ \E args \in {<<>>, <<PlayerNames>>} : ConstructQuiz(args)
    \/ Next

SpecMain == InitMain /\ [][NextMain]_vars

\* main() has constructed the quiz with a list of player names.
ConstructedWithNames ==
    /\ quiz_call /= None
    /\ quiz_call[1].method = "__init__"
    /\ Len(quiz_call[1].args) = 1

(***************************************************************************)
(* C15 - A Quiz constructed with a list of player names has exactly those  *)
(* names as its players, and the run of a controller on it asks the        *)
(* players and records their answers without a set_players call and        *)
(* without an error.                                                       *)
(***************************************************************************)
C15_QuizConstructedWithPlayers ==
    ConstructedWithNames =>
        /\ pc /= "crashed"
        /\ players = Some(quiz_call[1].args[1])

(***************************************************************************)
(* A Quiz on its own: the quiz file and the players are set, then          *)
(* next_question, ask_next_player and get_player_name are called in any    *)
(* order.  quiz_call is the last call and what it returned (for            *)
(* get_player_name the name).  The players are None (never set) or a list  *)
(* of 0..NumPlayers names; the file has 0..MaxFlowQuestions questions.     *)
(***************************************************************************)
\* Calls made past the end of the file, or past the last player, that still
\* advance the indices.
MaxCallsPastEnd == 2

PlayerLists == {SubSeq(PlayerNames, 1, n) : n \in 0..NumPlayers}

\* Largest number of questions of the quiz file of a Quiz on its own and of
\* the run of QuizControllerCLI.
MaxFlowQuestions == 2

\* Their quiz files: one of each length, the number of options of the
\* questions varying from 1 to MaxOpts along the file.
FlowQuizFiles ==
    {[i \in 1..len |-> Question(1 + (i % MaxOpts))] : len \in 0..MaxFlowQuestions}

InitQuiz ==
    /\ pc = "quiz"
    /\ \E file \in FlowQuizFiles, plist \in {None} \cup {Some(l) : l \in PlayerLists} :
        /\ players = plist
        /\ quiz_file = Some("quiz.jsonl")
        /\ jsonl_lines = file
    /\ player_index = -1
    /\ line_index = -1
    /\ line = Fallback
    /\ results = <<>>
    /\ events = <<>>
    /\ listeners = <<>>
    /\ received = <<>>
    /\ now = 0
    /\ hold_timer = Timer(HOLD_TIME * TicksPerSecond)
    /\ n_opts = 0
    /\ answer_index = Some(-1)
    /\ current_color_index = None
    /\ detected_index = None
    /\ validated = FALSE
    /\ recent = <<>>
    /\ run_start = 0
    /\ alt_since = None
    /\ interrupted = None
    /\ steady = None
    /\ since_reset = {}
    /\ validations = 0
    /\ records = 0
    /\ NoCalls

CallNextQuestion ==
    /\ pc = "quiz"
    /\ line_index < Len(jsonl_lines) + MaxCallsPastEnd
    /\ \E ret \in QuizReturns :
        /\ next_question(ret)
        /\ quiz_call' = QuizCall("next_question", <<>>, ret)
    /\ UNCHANGED <<pc, now, players, quiz_file, jsonl_lines, listeners, results, cvVars, histVars,
                   dc_args, dc_outcome, gm_args, gm_outcome, cs_args, cs_outcome,
                   timer_call, gm_calls,
                   hold_call, ctlVars>>

CallAskNextPlayer ==
    /\ pc = "quiz"
    /\ players /= None => player_index < Len(players[1]) + MaxCallsPastEnd
    /\ \E ret \in QuizReturns :
        /\ ask_next_player(ret)
        /\ quiz_call' = QuizCall("ask_next_player", <<>>, ret)
    /\ UNCHANGED <<pc, now, players, quiz_file, jsonl_lines, listeners, line_index, line, results,
                   cvVars, histVars, dc_args, dc_outcome, gm_args, gm_outcome,
                   cs_args, cs_outcome, timer_call, gm_calls,
                   hold_call, ctlVars>>

CallGetPlayerName ==
    /\ pc = "quiz"
    /\ quiz_call' = QuizCall("get_player_name", <<>>,
                             IF players = None THEN "RuntimeError"
                             ELSE get_player_name(players[1], player_index))
    /\ UNCHANGED <<pc, now, quizVars, cvVars, histVars, dc_args, dc_outcome,
                   gm_args, gm_outcome, cs_args, cs_outcome, timer_call, gm_calls,
                   hold_call, ctlVars>>

NextQuiz ==
    \/ CallNextQuestion
    \/ CallAskNextPlayer
    \/ CallGetPlayerName

SpecQuiz == InitQuiz /\ [][NextQuiz]_vars

\* The last call made on the quiz.
LastCall == quiz_call[1]

\* The step is a call of next_question: no other method moves line_index.
NextQuestionStep == line_index' /= line_index

\* The step is a call of ask_next_player on a quiz whose players are set:
\* it moves player_index and leaves line_index.
AskNextPlayerStep == player_index' /= player_index /\ line_index' = line_index

C18_PlayerNameOrEmpty ==
    (pc = "quiz" /\ quiz_call /= None /\ LastCall.method = "get_player_name"
        /\ players /= None) =>
        LastCall.ret = IF 0 <= player_index /\ player_index < Len(players[1])
                       THEN players[1][player_index + 1]
                       ELSE ""

MaxRecords == 1

InitRecord ==
    /\ pc = "quiz"
    /\ \E plist \in {None, Some(<<>>), Some(SubSeq(PlayerNames, 1, 2))} :
        /\ players = plist
        /\ quiz_file = Some("quiz.jsonl")
        /\ jsonl_lines = <<Question(MaxOpts)>>
    /\ player_index = -1
    /\ line_index = -1
    /\ line = Fallback
    /\ results = <<>>
    /\ events = <<>>
    /\ listeners = <<>>
    /\ received = <<>>
    /\ now = 0
    /\ hold_timer = Timer(HOLD_TIME * TicksPerSecond)
    /\ n_opts = 0
    /\ answer_index = Some(-1)
    /\ current_color_index = None
    /\ detected_index = None
    /\ validated = FALSE
    /\ recent = <<>>
    /\ run_start = 0
    /\ alt_since = None
    /\ interrupted = None
    /\ steady = None
    /\ since_reset = {}
    /\ validations = 0
    /\ records = 0
    /\ NoCalls

CallRecordAnswer(a) ==
    /\ pc = "quiz"
    /\ Len(results) < MaxRecords
    /\ \E ret \in RecordReturns :
        /\ Quiz_record_answer(a, ret)
        /\ quiz_call' = QuizCall("record_answer", <<a>>, ret)
    /\ UNCHANGED <<pc, now, players, quiz_file, jsonl_lines, listeners, player_index,
                   line_index, line, events, received, cvVars, histVars,
                   dc_args, dc_outcome, gm_args, gm_outcome, gm_calls, cs_args,
                   cs_outcome, timer_call, hold_call, ctlVars>>

NextRecord ==
    \/ CallNextQuestion
    \/ CallAskNextPlayer
    \/ CallGetPlayerName
    \/ \E a \in -1..MaxOpts : CallRecordAnswer(a)

SpecRecord == InitRecord /\ [][NextRecord]_vars

\* The step is a call of record_answer.
RecordAnswerStep ==
    /\ quiz_call' /= None
    /\ quiz_call'[1].method = "record_answer"
    /\ quiz_call' /= quiz_call \/ results' /= results

(***************************************************************************)
(* C28 - With the players set, record_answer(answer_index) appends one     *)
(* result row (the current player, the current question, the chosen        *)
(* option, the expected answer, and whether the two are equal) when        *)
(* 0 <= answer_index < the number of options of the current question, and  *)
(* records nothing for any other index; either way it changes neither      *)
(* player_index nor line_index and emits no event.                         *)
(***************************************************************************)
C28_RecordAnswer ==
    [][(RecordAnswerStep /\ players /= None) =>
        LET a == quiz_call'[1].args[1]
        IN  /\ quiz_call'[1].ret = "None"
            /\ IF 0 <= a /\ a < Len(line.options)
               THEN results' = Append(results,
                        [player |-> get_player_name(players[1], player_index),
                         question |-> line.question,
                         answer |-> line.options[a + 1],
                         expected |-> line.correct_answer,
                         result |-> (line.options[a + 1] = line.correct_answer)])
               ELSE results' = results
            /\ UNCHANGED <<player_index, line_index, events, received>>]_vars

\* The step is a call of get_player_name, record_answer or ask_next_player.
PlayerMethodStep ==
    /\ quiz_call' /= None
    /\ quiz_call'[1].method \in {"get_player_name", "record_answer", "ask_next_player"}
    /\ quiz_call' /= quiz_call

(***************************************************************************)
(* C29 - While no players are set, get_player_name, record_answer and      *)
(* ask_next_player each raise RuntimeError and leave the model as it was:  *)
(* player_index and line_index keep their values, no event is emitted and  *)
(* nothing is written to the results file.                                 *)
(***************************************************************************)
C29_PlayersRequired ==
    [][(PlayerMethodStep /\ players = None) =>
        /\ quiz_call'[1].ret = "RuntimeError"
        /\ UNCHANGED <<players, player_index, line_index, line>>
        /\ UNCHANGED <<events, received, results>>]_vars

\* record_answer(0) has raised on a loaded question, after which
\* ask_next_player and get_player_name could have been called as well.
C29_Witness ==
    /\ pc = "quiz"
    /\ players = None
    /\ line_index = 0
    /\ Len(line.options) > 0
    /\ quiz_call /= None
    /\ LastCall.method = "record_answer"
    /\ LastCall.args = <<0>>
    /\ LastCall.ret = "RuntimeError"
    /\ player_index = -1
    /\ results = <<>>
    /\ Len(events) = 1

(***************************************************************************)
(* quiz/core/quiz_model.py: the listeners of a QuizModel.  add_listener is *)
(* called with one listener or with a list of listeners, and events are    *)
(* emitted between these calls (begin, inform_player, end), each with its  *)
(* number in the run as its argument.  The argument of add_listener is     *)
(* [is_list, items]: a list and its elements, or one listener as the only  *)
(* item.  quiz_call keeps the last add_listener call.  on_event returns    *)
(* for every listener.                                                     *)
(***************************************************************************)
\* Largest number of registered listeners.
MaxListeners == 3

\* Largest number of emitted events.
MaxEvents == 2

\* The listeners of the application: the view and the sounds.
Listeners == {"view", "sounds"}

\* Largest list handed to add_listener.
MaxListLen == 2

ListenerArgs ==
    {[is_list |-> FALSE, items |-> <<l>>] : l \in Listeners}
    \cup {[is_list |-> TRUE, items |-> ls] :
            ls \in UNION {[1..n -> Listeners] : n \in 0..MaxListLen}}

\* Faulty variant: every listener is registered at the head of
\* self.listeners, a list one element after the other.
add_listener_prepends(listener) ==
    listeners' = IF listener.is_list
                 THEN [i \in 1..Len(listener.items) |->
                          listener.items[Len(listener.items) + 1 - i]] \o listeners
                 ELSE <<listener.items[1]>> \o listeners

add_listener(listener) ==
    listeners' = IF listener.is_list
                 THEN listeners \o listener.items
                 ELSE Append(listeners, listener.items[1])

InitListeners ==
    /\ pc = "listeners"
    /\ NotRun
    /\ NoCalls

AddListener(listener) ==
    /\ pc = "listeners"
    /\ Len(listeners) + Len(listener.items) <= MaxListeners
    /\ add_listener(listener)
    /\ quiz_call' = QuizCall("add_listener", <<listener>>, "None")
    /\ UNCHANGED <<pc, now, players, quiz_file, jsonl_lines, player_index, line_index,
                   line, results, events, received, cvVars, histVars,
                   dc_args, dc_outcome, gm_args, gm_outcome, gm_calls, cs_args,
                   cs_outcome, timer_call, hold_call, ctlVars>>

\* notify_listeners(e, args), as begin, inform_player and end call it.
EmitEvent(e) ==
    /\ pc = "listeners"
    /\ Len(events) < MaxEvents
    /\ notify_listeners(e, <<ToString(Len(events) + 1)>>)
    /\ UNCHANGED <<pc, now, players, quiz_file, jsonl_lines, listeners, player_index,
                   line_index, line, results, cvVars, histVars, callVars>>

NextListeners ==
    \/ \E listener \in ListenerArgs : AddListener(listener)
    \/ \E e \in {"BEGIN", "INFO", "END"} : EmitEvent(e)

SpecListeners == InitListeners /\ [][NextListeners]_vars

\* The step is a call of notify_listeners.
NotifyStep == events' /= events

\* The step is a call of add_listener.
AddListenerStep ==
    /\ quiz_call' /= None
    /\ quiz_call'[1].method = "add_listener"
    /\ quiz_call' /= quiz_call \/ listeners' /= listeners

\* The number in the run of the event an on_event call delivered.
EventNo(call) ==
    CHOOSE k \in 1..Len(events) : events[k] = Event(call.e, call.args)

MaxRetries == 1

InvalidPath == "Invalid path or file extension"

InvalidAnswer(n) == "Input a number within the range 1-" \o ToString(n)

\* The inputs refused so far in the run: the notices of a refusal in the log.
Retries ==
    Cardinality({i \in 1..Len(events) :
        events[i] \in {Event("INFO", <<InvalidPath>>)}
                      \cup {Event("INFO", <<InvalidAnswer(n)>>) : n \in 0..MaxOpts}})

\* A line of text is the sequence of its characters.  The characters of
\* the model: the decimal digits, a letter, and the superscript two
\* (U+00B2), a digit that is no decimal digit.
DecimalChars == {ToString(d) : d \in 0..9}

DigitChars == DecimalChars \cup {"SUPERSCRIPT TWO"}

\* str.isdigit(): every character is a digit and there is at least one.
isdigit(str) == Len(str) > 0 /\ \A i \in 1..Len(str) : str[i] \in DigitChars

DecimalValue(c) == CHOOSE d \in 0..9 : ToString(d) = c

RECURSIVE DecimalNumber(_)
DecimalNumber(str) ==
    IF Len(str) = 0 THEN 0
    ELSE 10 * DecimalNumber(SubSeq(str, 1, Len(str) - 1)) + DecimalValue(str[Len(str)])

\* int(str) on a line of digits: the number the decimal digits denote,
\* ValueError when a character is no decimal digit.
int(str) ==
    IF Len(str) > 0 /\ \A i \in 1..Len(str) : str[i] \in DecimalChars
    THEN [kind |-> "return", value |-> DecimalNumber(str)]
    ELSE [kind |-> "raise", value |-> 0]

\* The lines a player types: a letter, the superscript two, and the
\* numbers from 0 to one past the largest option count.
InputLines ==
    {<<"a">>, <<"SUPERSCRIPT TWO">>} \cup {<<ToString(k)>> : k \in 0..(MaxOpts + 1)}

InitCli ==
    /\ pc = "cli"
    /\ \E file \in QuizFiles \cup FlowQuizFiles, plist \in PlayerLists :
        /\ players = Some(plist)
        /\ jsonl_lines = file
    /\ quiz_file = None
    /\ player_index = -1
    /\ line_index = -1
    /\ line = Fallback
    /\ results = <<>>
    /\ events = <<>>
    /\ listeners = <<>>
    /\ received = <<>>
    /\ now = 0
    /\ hold_timer = Timer(HOLD_TIME * TicksPerSecond)
    /\ n_opts = 0
    /\ answer_index = Some(-1)
    /\ current_color_index = None
    /\ detected_index = None
    /\ validated = FALSE
    /\ recent = <<>>
    /\ run_start = 0
    /\ alt_since = None
    /\ interrupted = None
    /\ steady = None
    /\ since_reset = {}
    /\ validations = 0
    /\ records = 0
    /\ NoCalls

\* self.quiz.begin()
CliBegin ==
    /\ pc = "cli"
    /\ pc' = "cli_file"
    /\ notify_listeners("BEGIN", <<>>)
    /\ UNCHANGED <<now, players, quiz_file, jsonl_lines, listeners, player_index, line_index, line,
                   results, cvVars, histVars, callVars>>

\* One pass of the loop that asks for the quiz file.
CliAskFile(readable_jsonl) ==
    /\ pc = "cli_file"
    /\ readable_jsonl \/ Retries < MaxRetries
    /\ IF readable_jsonl
       THEN /\ quiz_file' = Some("quiz.jsonl")
            /\ NotifyEach(<<Event("INFO", <<"Specify a quiz file (.jsonl): ">>),
                             Event("INFO", <<"Press ENTER to continue">>)>>)
            /\ pc' = "cli_next_question"
       ELSE /\ UNCHANGED quiz_file
            /\ NotifyEach(<<Event("INFO", <<"Specify a quiz file (.jsonl): ">>),
                             Event("INFO", <<InvalidPath>>)>>)
            /\ pc' = "cli_file"
    /\ UNCHANGED <<now, players, jsonl_lines, listeners, player_index, line_index, line,
                   results, cvVars, histVars, callVars>>

\* while self.quiz.next_question(): n_opts = len(self.quiz.get_options())
CliNextQuestion ==
    /\ pc = "cli_next_question"
    /\ \E ret \in QuizReturns :
        /\ next_question(ret)
        /\ IF ret = "True"
           THEN /\ pc' = "cli_ask_next_player"
                /\ n_opts' = Len(line'.options)
           ELSE /\ pc' = "cli_end"
                /\ UNCHANGED n_opts
    /\ UNCHANGED <<now, players, quiz_file, jsonl_lines, listeners, results,
                   hold_timer, answer_index, current_color_index, detected_index, validated,
                   histVars, callVars>>

\* while self.quiz.ask_next_player(): player = self.quiz.get_player_name()
CliAskNextPlayer ==
    /\ pc = "cli_ask_next_player"
    /\ \E ret \in QuizReturns :
        /\ ask_next_player(ret)
        /\ pc' = CASE ret = "True" -> "cli_input"
                   [] ret = "False" -> "cli_next_question"
                   [] OTHER -> "crashed"
    /\ UNCHANGED <<now, players, quiz_file, jsonl_lines, listeners, line_index, line, results,
                   cvVars, histVars, callVars>>

\* One pass of the loop that asks the player for an answer number, on the
\* line input() returns.  int(answer) raises ValueError on a line isdigit()
\* lets through and int() refuses; run_quiz catches KeyboardInterrupt only.
CliAnswer(answer) ==
    /\ pc = "cli_input"
    /\ stdin' = Some(answer)
    /\ LET player == get_player_name(players[1], player_index)
           prompt == Event("INFO", <<player \o ", enter your answer number:">>)
           number == int(answer)
       IN  IF ~isdigit(answer)
           THEN /\ Retries < MaxRetries
                /\ NotifyEach(<<prompt, Event("INFO", <<InvalidAnswer(n_opts)>>)>>)
                /\ UNCHANGED results
                /\ pc' = "cli_input"
           ELSE IF number.kind = "raise"
           THEN /\ NotifyEach(<<prompt>>)
                /\ UNCHANGED results
                /\ pc' = "crashed"
           ELSE IF 1 <= number.value /\ number.value <= n_opts
           THEN /\ NotifyEach(<<prompt>>)
                /\ record_answer(number.value - 1)
                /\ pc' = "cli_ask_next_player"
           ELSE /\ Retries < MaxRetries
                /\ NotifyEach(<<prompt, Event("INFO", <<InvalidAnswer(n_opts)>>)>>)
                /\ UNCHANGED results
                /\ pc' = "cli_input"
    /\ UNCHANGED <<now, players, quiz_file, jsonl_lines, listeners, player_index, line_index, line,
                   cvVars, histVars, dc_args, dc_outcome, gm_args, gm_outcome, gm_calls,
                   cs_args, cs_outcome, timer_call, quiz_call, hold_call,
                   gui, gui_hist, cap, releases>>

\* self.quiz.end([self.quiz.output_file]); self.wait_player()
CliEnd ==
    /\ pc = "cli_end"
    /\ pc' = "done"
    /\ NotifyEach(<<Event("END", <<output_file>>),
                     Event("INFO", <<"Press ENTER to continue">>)>>)
    /\ UNCHANGED <<now, players, quiz_file, jsonl_lines, listeners, player_index, line_index, line,
                   results, cvVars, histVars, callVars>>

\* ^C at an input(): except KeyboardInterrupt.
CliInterrupt ==
    /\ pc \in {"cli_file", "cli_input"}
    /\ pc' = "returned"
    /\ NotifyEach(
            <<Event("INFO", <<IF pc = "cli_file" THEN "Specify a quiz file (.jsonl): "
                              ELSE get_player_name(players[1], player_index)
                                   \o ", enter your answer number:">>),
              Event("INFO", <<"Quiz exited with ^C">>)>>)
    /\ UNCHANGED <<now, players, quiz_file, jsonl_lines, listeners, player_index, line_index, line,
                   results, cvVars, histVars, callVars>>

NextCli ==
    \/ CliBegin
    \/ \E readable_jsonl \in BOOLEAN : CliAskFile(readable_jsonl)
    \/ CliNextQuestion
    \/ CliAskNextPlayer
    \/ \E answer \in InputLines : CliAnswer(answer)
    \/ CliEnd
    \/ CliInterrupt

SpecCli == InitCli /\ [][NextCli]_vars

\* The events of the log other than INFO, in order.
IsLifecycleEvent(ev) == ev.e /= "INFO"

Lifecycle == SelectSeq(events, IsLifecycleEvent)

\* The events of the canonical flow for the quiz file and the players at
\* hand: BEGIN, then for each question in file order QUESTION followed by
\* one ASK_PLAYER per player in list order, then END.
CanonicalFlow ==
    LET P == Len(players[1])
        Q == Len(jsonl_lines)
    IN  [i \in 1..(Q * (1 + P) + 2) |->
            IF i = 1 THEN Event("BEGIN", <<>>)
            ELSE IF i = Q * (1 + P) + 2 THEN Event("END", <<output_file>>)
            ELSE LET q == ((i - 2) \div (1 + P)) + 1
                     p == (i - 2) % (1 + P)
                 IN  IF p = 0
                     THEN Event("QUESTION", <<jsonl_lines[q].question>> \o jsonl_lines[q].options)
                     ELSE Event("ASK_PLAYER", <<players[1][p]>>)]

IsPrefix(s, t) == Len(s) <= Len(t) /\ SubSeq(t, 1, Len(s)) = s

(***************************************************************************)
(* C16 - Canonical quiz flow.  With P >= 1 players and a quiz file of Q    *)
(* questions, the run of QuizControllerCLI emits BEGIN once and first,     *)
(* then for each question in file order one QUESTION followed by one       *)
(* ASK_PLAYER per player in list order (from the first player again on     *)
(* each question), then END once and last of these events; record_answer   *)
(* is called Q * P times, once per question and player.  While the quiz    *)
(* runs, the events emitted so far are a prefix of that sequence, and one  *)
(* answer has been recorded for every player asked but the current one.    *)
(***************************************************************************)
C16_CanonicalFlow ==
    (pc \in {"cli", "cli_file", "cli_next_question", "cli_ask_next_player", "cli_input",
             "cli_end", "done", "returned"} /\ Len(players[1]) >= 1) =>
        LET P == Len(players[1])
            Q == Len(jsonl_lines)
            asked == Cardinality({i \in 1..Len(Lifecycle) : Lifecycle[i].e = "ASK_PLAYER"})
        IN  /\ Len(events) > 0 => events[1] = Event("BEGIN", <<>>)
            /\ IsPrefix(Lifecycle, CanonicalFlow)
            /\ Len(results) = IF pc = "cli_input" \/ (pc = "returned" /\ asked > Len(results))
                              THEN asked - 1 ELSE asked
            /\ \A r \in 1..Len(results) :
                    /\ results[r].player = players[1][((r - 1) % P) + 1]
                    /\ results[r].question = jsonl_lines[((r - 1) \div P) + 1].question
                    /\ results[r].expected = jsonl_lines[((r - 1) \div P) + 1].correct_answer
            /\ pc = "done" =>
                    /\ Lifecycle = CanonicalFlow
                    /\ Len(results) = Q * P

\* The run of a quiz of two questions and NumPlayers players has ended.
C16_Witness ==
    /\ pc = "done"
    /\ Len(jsonl_lines) = 2
    /\ Len(players[1]) = NumPlayers
    /\ Len(results) = 2 * NumPlayers
    /\ Lifecycle = CanonicalFlow
    /\ Lifecycle[Len(Lifecycle)].e = "END"

\* The step reads a player's answer: an input() of the answer loop that
\* ^C does not interrupt.
CliAnswerStep == pc = "cli_input" /\ stdin' /= None /\ pc' /= "returned"

\* The line is a number n with 1 <= n <= n_opts.
IsAnswerNumber(str) ==
    /\ int(str).kind = "return"
    /\ 1 <= int(str).value
    /\ int(str).value <= n_opts

(***************************************************************************)
(* C31 - In QuizControllerCLI.run_quiz the line a player types is accepted *)
(* only when it is a number n with 1 <= n <= n_opts: then exactly          *)
(* record_answer(n - 1) is called and the controller goes on to the next   *)
(* player.  Any other line records nothing, advances neither the player    *)
(* nor the question, and the same player is prompted again.                *)
(***************************************************************************)
C31_OnlyValidNumbersAccepted ==
    [][CliAnswerStep =>
        IF IsAnswerNumber(stdin'[1])
        THEN /\ record_answer(int(stdin'[1]).value - 1)
             /\ pc' = "cli_ask_next_player"
             /\ UNCHANGED <<player_index, line_index, line>>
        ELSE /\ UNCHANGED <<results, player_index, line_index, line>>
             /\ pc' = "cli_input"]_vars

(***************************************************************************)
(* quiz/defaults/quiz_controller_gui.py: QuizControllerGUI.  run_quiz      *)
(* begins the quiz and enters the Tk main loop, where the user clicks a    *)
(* radio button or Next.  on_next_btn runs to completion before the next   *)
(* click is handled: pc is "gui_mainloop" between two clicks and names the *)
(* call on_next_btn makes next while it runs, and no click is taken then.  *)
(* The clicks the controller refuses are bounded by MaxRefusedClicks.      *)
(***************************************************************************)
MaxRefusedClicks == 1

\* What the file dialog returns: a .jsonl file, "" when it is cancelled,
\* another file, or a tuple ("()").
FileChoices == {"quiz.jsonl", "", "notes.txt", "()"}

JsonlNames == {"quiz.jsonl"}

\* The Next clicks refused so far: a file dialog that gave no quiz file, or
\* no selected answer.
RefusedClicks ==
    Cardinality({i \in 1..Len(events) :
        events[i] \in {Event("INFO", <<"Select a quiz file (.jsonl)">>),
                       Event("INFO", <<"Please select an answer">>)}})
    - (IF quiz_file = None THEN 0 ELSE 1)

InitGui ==
    /\ pc = "gui"
    /\ players = None
    /\ quiz_file = None
    /\ jsonl_lines \in FlowQuizFiles
    /\ player_index = -1
    /\ line_index = -1
    /\ line = Fallback
    /\ results = <<>>
    /\ events = <<>>
    /\ listeners = <<>>
    /\ received = <<>>
    /\ now = 0
    /\ hold_timer = Timer(HOLD_TIME * TicksPerSecond)
    /\ n_opts = 0
    /\ answer_index = Some(-1)
    /\ current_color_index = None
    /\ detected_index = None
    /\ validated = FALSE
    /\ recent = <<>>
    /\ run_start = 0
    /\ alt_since = None
    /\ interrupted = None
    /\ steady = None
    /\ since_reset = {}
    /\ validations = 0
    /\ records = 0
    /\ NoCalls

\* What no step of the GUI controller touches.
GuiUnused ==
    <<now, jsonl_lines, listeners, cvVars, histVars, dc_args, dc_outcome, gm_args,
      gm_outcome, gm_calls, cs_args, cs_outcome, timer_call, quiz_call, hold_call,
      stdin, cap, releases>>

\* run_quiz: self.quiz.begin(); self.view.mainloop()
GuiRunQuiz ==
    /\ pc = "gui"
    /\ pc' = "gui_mainloop"
    /\ notify_listeners("BEGIN", <<>>)
    /\ UNCHANGED <<players, quiz_file, player_index, line_index, line, results,
                   gui, gui_hist, GuiUnused>>

\* The user clicks the radio button of option i: selected_index = i.
ClickRadio(i) ==
    /\ pc = "gui_mainloop"
    /\ gui.current_state = "ASK_PLAYER"
    /\ ~gui.destroyed
    /\ i < gui.radio_btns
    /\ gui' = [gui EXCEPT !.selected_index = i]
    /\ gui_hist' = [gui_hist EXCEPT !.selected_at = Some(<<line_index, player_index>>)]
    /\ UNCHANGED <<pc, players, quiz_file, player_index, line_index, line, results,
                   events, received, GuiUnused>>

\* create_radio_buttons(): one button per option of the current question.
create_radio_buttons(g) == [g EXCEPT !.radio_btns = Len(line.options)]

\* on_next_btn in state BEGIN, up to next_question(): select_file(), and
\* with a .jsonl file set_quiz_file(quiz_file), the dialog of the user
\* names, set_players(dialog.usernames).
OnNextBegin(filename, usernames) ==
    /\ pc = "gui_mainloop"
    /\ gui.current_state = "BEGIN"
    /\ ~gui.destroyed
    /\ IF filename \in JsonlNames
       THEN /\ NotifyEach(<<Event("INFO", <<"Select a quiz file (.jsonl)">>)>>)
            /\ quiz_file' = Some(filename)
            /\ players' = Some(usernames)
            /\ pc' = "gui_begin_next_question"
       ELSE /\ RefusedClicks < MaxRefusedClicks
            /\ usernames = <<>>
            /\ NotifyEach(IF filename \in {"", "()"}
                          THEN <<Event("INFO", <<"Select a quiz file (.jsonl)">>)>>
                          ELSE <<Event("INFO", <<"Select a quiz file (.jsonl)">>),
                                 Event("INFO", <<"Invalid file type">>)>>)
            /\ UNCHANGED <<quiz_file, players, pc>>
    /\ UNCHANGED <<player_index, line_index, line, results, gui, gui_hist, GuiUnused>>

\* if self.quiz.next_question() and ...: the left operand.
OnNextBeginNextQuestion ==
    /\ pc = "gui_begin_next_question"
    /\ \E ret \in QuizReturns :
        /\ next_question(ret)
        /\ pc' = IF ret = "True" THEN "gui_begin_ask_next_player" ELSE "gui_nothing_to_do"
    /\ UNCHANGED <<players, quiz_file, results, gui, gui_hist, GuiUnused>>

\* ... and self.quiz.ask_next_player(): the right operand; when both hold,
\* the radio buttons are created and packed and the state is ASK_PLAYER.
OnNextBeginAskNextPlayer ==
    /\ pc = "gui_begin_ask_next_player"
    /\ \E ret \in QuizReturns :
        /\ ask_next_player(ret)
        /\ IF ret = "True"
           THEN /\ gui' = [create_radio_buttons(gui) EXCEPT !.current_state = "ASK_PLAYER"]
                /\ pc' = "gui_mainloop"
           ELSE /\ UNCHANGED gui
                /\ pc' = IF ret = "False" THEN "gui_nothing_to_do" ELSE "crashed"
    /\ UNCHANGED <<players, quiz_file, line_index, line, results, gui_hist, GuiUnused>>

\* else: self.interactive_frame.destroy(); self.quiz.end()
OnNextNothingToDo ==
    /\ pc = "gui_nothing_to_do"
    /\ pc' = "gui_mainloop"
    /\ gui' = [gui EXCEPT !.destroyed = TRUE]
    /\ notify_listeners("END", <<>>)
    /\ UNCHANGED <<players, quiz_file, player_index, line_index, line, results,
                   gui_hist, GuiUnused>>

\* Faulty variant: selected_index keeps the recorded option.
OnNextAskPlayer_keeps_selection ==
    /\ pc = "gui_mainloop"
    /\ gui.current_state = "ASK_PLAYER"
    /\ ~gui.destroyed
    /\ IF gui.selected_index < 0
       THEN /\ RefusedClicks < MaxRefusedClicks
            /\ notify_listeners("INFO", <<"Please select an answer">>)
            /\ UNCHANGED <<results, gui, gui_hist, pc>>
       ELSE /\ UNCHANGED gui
            /\ \E ret \in RecordReturns :
                /\ Quiz_record_answer(gui.selected_index, ret)
                /\ pc' = IF ret = "None" THEN "gui_ask_next_player" ELSE "crashed"
            /\ gui_hist' = [gui_hist EXCEPT !.calls =
                                Append(@, [answer_index |-> gui.selected_index,
                                           line_index |-> line_index,
                                           player_index |-> player_index,
                                           options |-> Len(line.options),
                                           selected_at |-> gui_hist.selected_at])]
            /\ UNCHANGED <<events, received>>
    /\ UNCHANGED <<players, quiz_file, player_index, line_index, line, GuiUnused>>

\* on_next_btn in state ASK_PLAYER, up to ask_next_player(): without a
\* selected option the player is told and nothing else happens; otherwise
\* selected_index is reset and record_answer(answer_index) is called.
OnNextAskPlayer ==
    /\ pc = "gui_mainloop"
    /\ gui.current_state = "ASK_PLAYER"
    /\ ~gui.destroyed
    /\ IF gui.selected_index < 0
       THEN /\ RefusedClicks < MaxRefusedClicks
            /\ notify_listeners("INFO", <<"Please select an answer">>)
            /\ UNCHANGED <<results, gui, gui_hist, pc>>
       ELSE /\ gui' = [gui EXCEPT !.selected_index = -1]
            /\ \E ret \in RecordReturns :
                /\ Quiz_record_answer(gui.selected_index, ret)
                /\ pc' = IF ret = "None" THEN "gui_ask_next_player" ELSE "crashed"
            /\ gui_hist' = [gui_hist EXCEPT !.calls =
                                Append(@, [answer_index |-> gui.selected_index,
                                           line_index |-> line_index,
                                           player_index |-> player_index,
                                           options |-> Len(line.options),
                                           selected_at |-> gui_hist.selected_at])]
            /\ UNCHANGED <<events, received>>
    /\ UNCHANGED <<players, quiz_file, player_index, line_index, line, GuiUnused>>

\* if not self.quiz.ask_next_player():
OnNextAskNextPlayer ==
    /\ pc = "gui_ask_next_player"
    /\ \E ret \in QuizReturns :
        /\ ask_next_player(ret)
        /\ pc' = CASE ret = "True" -> "gui_mainloop"
                   [] ret = "False" -> "gui_next_question"
                   [] OTHER -> "crashed"
    /\ UNCHANGED <<players, quiz_file, line_index, line, results, gui, gui_hist, GuiUnused>>

\* if not self.quiz.next_question():
OnNextNextQuestion ==
    /\ pc = "gui_next_question"
    /\ \E ret \in QuizReturns :
        /\ next_question(ret)
        /\ pc' = IF ret = "True" THEN "gui_ask_first_player" ELSE "gui_end"
    /\ UNCHANGED <<players, quiz_file, results, gui, gui_hist, GuiUnused>>

\* self.interactive_frame.destroy(); self.quiz.end([self.quiz.output_file])
OnNextEnd ==
    /\ pc = "gui_end"
    /\ pc' = "gui_mainloop"
    /\ gui' = [gui EXCEPT !.destroyed = TRUE]
    /\ notify_listeners("END", <<output_file>>)
    /\ UNCHANGED <<players, quiz_file, player_index, line_index, line, results,
                   gui_hist, GuiUnused>>

\* else: self.quiz.ask_next_player(); self.create_radio_buttons()
OnNextAskFirstPlayer ==
    /\ pc = "gui_ask_first_player"
    /\ \E ret \in QuizReturns :
        /\ ask_next_player(ret)
        /\ pc' = IF ret = "RuntimeError" THEN "crashed" ELSE "gui_mainloop"
    /\ gui' = create_radio_buttons(gui)
    /\ UNCHANGED <<players, quiz_file, line_index, line, results, gui_hist, GuiUnused>>

NextGui ==
    \/ GuiRunQuiz
    \/ \E i \in 0..(MaxOpts - 1) : ClickRadio(i)
    \/ \E filename \in FileChoices, usernames \in PlayerLists : OnNextBegin(filename, usernames)
    \/ OnNextBeginNextQuestion
    \/ OnNextBeginAskNextPlayer
    \/ OnNextNothingToDo
    \/ OnNextAskPlayer
    \/ OnNextAskNextPlayer
    \/ OnNextNextQuestion
    \/ OnNextEnd
    \/ OnNextAskFirstPlayer

SpecGui == InitGui /\ [][NextGui]_vars

\* The two events are of the same kind and, but for END, carry the same
\* arguments.
SameModelEvent(a, b) == a.e = b.e /\ (a.e /= "END" => a.args = b.args)

\* The record_answer calls of the canonical loop, as [question, player]
\* positions: every player in list order for each question in file order.
CanonicalRecords ==
    LET P == Len(players[1])
        Q == Len(jsonl_lines)
    IN  [i \in 1..(Q * P) |-> <<(i - 1) \div P, (i - 1) % P>>]

\* The record_answer calls on_next_btn made, as [question, player] positions.
GuiRecords ==
    [i \in 1..Len(gui_hist.calls) |->
        <<gui_hist.calls[i].line_index, gui_hist.calls[i].player_index>>]

(***************************************************************************)
(* C32 - For every quiz file and every player list, the empty one          *)
(* included, the model events (BEGIN, QUESTION, ASK_PLAYER, END) and the   *)
(* record_answer calls that the Next clicks of QuizControllerGUI produce   *)
(* are those of the canonical loop of QuizControllerCLI (while             *)
(* next_question(): while ask_next_player(): record_answer): between two   *)
(* clicks they are a prefix of the canonical sequence, and the whole of it *)
(* once the quiz has ended.                                                *)
(***************************************************************************)
C32_GuiFollowsCanonicalLoop ==
    (pc = "gui_mainloop" /\ players /= None) =>
        /\ Len(Lifecycle) <= Len(CanonicalFlow)
        /\ \A i \in 1..Len(Lifecycle) : SameModelEvent(Lifecycle[i], CanonicalFlow[i])
        /\ IsPrefix(GuiRecords, CanonicalRecords)
        /\ gui.destroyed =>
            /\ Len(Lifecycle) = Len(CanonicalFlow)
            /\ GuiRecords = CanonicalRecords

\* The GUI waits for a click in state ASK_PLAYER with no option selected,
\* and the step is no click on a radio button.
NextWithoutSelection ==
    /\ pc = "gui_mainloop"
    /\ gui.current_state = "ASK_PLAYER"
    /\ gui.selected_index < 0
    /\ gui'.selected_index < 0

\* The step is a call of record_answer by on_next_btn.
GuiRecordStep == Len(gui_hist'.calls) > Len(gui_hist.calls)

(***************************************************************************)
(* C33 - In QuizControllerGUI a Next click in state ASK_PLAYER with no     *)
(* option selected (selected_index < 0) records no answer and advances     *)
(* neither the player nor the question.  selected_index is -1 after every  *)
(* recorded answer, so every recorded answer was selected during the turn  *)
(* of the player it is recorded for, and its index is a position of the    *)
(* options of the question at hand.                                        *)
(***************************************************************************)
C33_SelectionRequired ==
    /\ [][NextWithoutSelection =>
            /\ UNCHANGED <<results, player_index, line_index, line, gui_hist>>
            /\ pc' = "gui_mainloop"]_vars
    /\ [][GuiRecordStep =>
            /\ gui'.selected_index = -1
            /\ Len(results') = Len(results) + 1]_vars
    /\ [](\A i \in 1..Len(gui_hist.calls) :
            LET call == gui_hist.calls[i]
            IN  /\ call.selected_at = Some(<<call.line_index, call.player_index>>)
                /\ 0 <= call.answer_index
                /\ call.answer_index < call.options
                /\ call.options = Len(jsonl_lines[call.line_index + 1].options)
                /\ results[i].answer
                       = jsonl_lines[call.line_index + 1].options[call.answer_index + 1])

\* A Next click without a selection was refused; the second option of the
\* first question was then recorded, and later the only option of the
\* second question.
C33_Witness ==
    /\ pc = "gui_mainloop"
    /\ \E i \in 1..Len(events) : events[i] = Event("INFO", <<"Please select an answer">>)
    /\ Len(gui_hist.calls) >= 2
    /\ gui_hist.calls[1].answer_index = 1
    /\ gui_hist.calls[Len(gui_hist.calls)].line_index = 1
    /\ gui_hist.calls[Len(gui_hist.calls)].options = 1
    /\ gui.selected_index = -1

\* The results file exists: record_answer has written a row (to_csv in
\* append mode creates it; nothing else does).
ResultsFileExists == Len(results) > 0

\* The END events emitted with the path of the results file.
EndWithPath == {i \in 1..Len(events) : events[i] = Event("END", <<output_file>>)}

(***************************************************************************)
(* C34 - Whenever a controller emits END with the path of the results file *)
(* as its argument, the results file exists (at least one answer row has   *)
(* been recorded), so that a listener that reads the file on END does not  *)
(* fail; this for every quiz file, one without a question included.        *)
(***************************************************************************)
C34_ResultsExistOnEnd == EndWithPath /= {} => ResultsFileExists

(***************************************************************************)
(* quiz/defaults/quiz_controller_vision.py: QuizControllerVision.run_quiz  *)
(* on a quiz whose players are set.  A frame is what cap.read() and the    *)
(* image give: ret, whether get_mask finds a sign (mask), the four color   *)
(* surfaces np.sum computes (in yes/no mode the first two stand for surf_v *)
(* and surf_r), and whether the key q is down at waitKey.  recent keeps    *)
(* the last two frames of the turn, each with reponse_index as the frame   *)
(* left it; answer_index holds reponse_index, quiz_call the last           *)
(* record_answer call.                                                     *)
(***************************************************************************)
seuil_minimum == 30000

\* The colors of the surfaces dictionary: yellow, green, blue, magenta.
NumVisionColors == 4

\* Largest number of options of a question of the quiz of this controller.
MaxVisionOpts == 3

\* The surfaces of a frame: at the threshold, and one and two above it.
VisionSurfaces == {seuil_minimum, seuil_minimum + 1, seuil_minimum + 2}

VisionFrames ==
    {[ret |-> FALSE, mask |-> FALSE, surfaces |-> <<>>, q |-> FALSE]}
    \cup {[ret |-> TRUE, mask |-> FALSE, surfaces |-> <<>>, q |-> k] : k \in BOOLEAN}
    \cup {[ret |-> TRUE, mask |-> TRUE, surfaces |-> sf, q |-> k] :
            sf \in [1..NumVisionColors -> VisionSurfaces], k \in BOOLEAN}

\* max(valid_surfaces, key=valid_surfaces.get): the first key, in the order
\* of the dictionary, whose surface is the largest.
gagnant(valid_surfaces) ==
    (CHOOSE i \in 1..Len(valid_surfaces) :
        /\ \A j \in 1..Len(valid_surfaces) : valid_surfaces[j] <= valid_surfaces[i]
        /\ \A j \in 1..(i - 1) : valid_surfaces[j] < valid_surfaces[i]) - 1

\* The body of the detection loop on a frame that was read: reponse_index
\* after it (-1 when nothing is detected), or ValueError of max() on an
\* empty dictionary.
reponse(frame, n) ==
    IF ~frame.mask THEN [kind |-> "return", value |-> -1]
    ELSE IF n = 2
    THEN LET surf_v == frame.surfaces[1]
             surf_r == frame.surfaces[2]
         IN  IF (IF surf_v >= surf_r THEN surf_v ELSE surf_r) > seuil_minimum
             THEN [kind |-> "return", value |-> IF surf_v > surf_r THEN 0 ELSE 1]
             ELSE [kind |-> "return", value |-> -1]
    ELSE LET valid_surfaces == SubSeq(frame.surfaces, 1, Min(n, NumVisionColors))
         IN  IF Len(valid_surfaces) = 0 THEN [kind |-> "raise", value |-> -1]
             ELSE IF valid_surfaces[gagnant(valid_surfaces) + 1] > seuil_minimum
             THEN [kind |-> "return", value |-> gagnant(valid_surfaces)]
             ELSE [kind |-> "return", value |-> -1]

InitVision ==
    /\ pc = "vision"
    /\ \E n \in 0..MaxVisionOpts, plist \in PlayerLists :
        /\ players = Some(plist)
        /\ jsonl_lines = <<Question(n)>>
    /\ quiz_file = None
    /\ player_index = -1
    /\ line_index = -1
    /\ line = Fallback
    /\ results = <<>>
    /\ events = <<>>
    /\ listeners = <<>>
    /\ received = <<>>
    /\ now = 0
    /\ hold_timer = Timer(HOLD_TIME * TicksPerSecond)
    /\ n_opts = 0
    /\ answer_index = Some(-1)
    /\ current_color_index = None
    /\ detected_index = None
    /\ validated = FALSE
    /\ recent = <<>>
    /\ run_start = 0
    /\ alt_since = None
    /\ interrupted = None
    /\ steady = None
    /\ since_reset = {}
    /\ validations = 0
    /\ records = 0
    /\ NoCalls

\* What no step of the vision controller touches.
VisionUnused ==
    <<now, players, jsonl_lines, listeners, hold_timer, current_color_index, detected_index,
      validated, run_start, alt_since, interrupted, steady, since_reset, validations,
      dc_args, dc_outcome, gm_args, gm_outcome, gm_calls, cs_args, cs_outcome, timer_call,
      hold_call, ctlVars>>

\* self.quiz.begin(); self.quiz.set_quiz_file(quiz_path); cap = VideoCapture(0)
VisionBegin ==
    /\ pc = "vision"
    /\ pc' = "vision_next_question"
    /\ quiz_file' = Some("tests/quiz_data.jsonl")
    /\ notify_listeners("BEGIN", <<>>)
    /\ UNCHANGED <<player_index, line_index, line, results, n_opts, answer_index, recent,
                   records, quiz_call, VisionUnused>>

\* while self.quiz.next_question(): n_opts = len(self.quiz.get_options())
VisionNextQuestion ==
    /\ pc = "vision_next_question"
    /\ \E ret \in QuizReturns :
        /\ next_question(ret)
        /\ IF ret = "True"
           THEN /\ pc' = "vision_ask_next_player"
                /\ n_opts' = Len(line'.options)
           ELSE /\ pc' = "vision_end"
                /\ UNCHANGED n_opts
    /\ UNCHANGED <<quiz_file, results, answer_index, recent, records, quiz_call, VisionUnused>>

\* while self.quiz.ask_next_player(): reponse_index = -1
VisionAskNextPlayer ==
    /\ pc = "vision_ask_next_player"
    /\ \E ret \in QuizReturns :
        /\ ask_next_player(ret)
        /\ IF ret = "True"
           THEN /\ pc' = "vision_frame"
                /\ answer_index' = Some(-1)
                /\ recent' = <<>>
                /\ records' = 0
           ELSE /\ pc' = IF ret = "False" THEN "vision_next_question" ELSE "crashed"
                /\ UNCHANGED <<answer_index, recent, records>>
    /\ UNCHANGED <<quiz_file, line_index, line, results, n_opts, quiz_call, VisionUnused>>

\* One pass of while reponse_index == -1: a failed read breaks out of the
\* loop; the key q returns from run_quiz.
VisionFrame(frame) ==
    /\ pc = "vision_frame"
    /\ LET out == IF frame.ret THEN reponse(frame, n_opts)
                  ELSE [kind |-> "return", value |-> answer_index[1]]
           seen == [ret |-> frame.ret, mask |-> frame.mask, surfaces |-> frame.surfaces,
                    reponse_index |-> out.value]
       IN  /\ recent' = IF Len(recent) < 2 THEN Append(recent, seen) ELSE <<recent[2], seen>>
           /\ IF out.kind = "raise"
              THEN /\ pc' = "crashed"
                   /\ UNCHANGED answer_index
              ELSE /\ answer_index' = Some(out.value)
                   /\ pc' = IF ~frame.ret THEN "vision_record"
                            ELSE IF frame.q THEN "returned"
                            ELSE IF out.value = -1 THEN "vision_frame"
                            ELSE "vision_record"
    /\ UNCHANGED <<quiz_file, player_index, line_index, line, results, events, received,
                   n_opts, records, quiz_call, VisionUnused>>

\* self.quiz.record_answer(reponse_index)
VisionRecordAnswer ==
    /\ pc = "vision_record"
    /\ records' = records + 1
    /\ \E ret \in RecordReturns :
        /\ Quiz_record_answer(answer_index[1], ret)
        /\ quiz_call' = QuizCall("record_answer", <<answer_index[1]>>, ret)
        /\ pc' = IF ret = "None" THEN "vision_ask_next_player" ELSE "crashed"
    /\ UNCHANGED <<quiz_file, player_index, line_index, line, events, received, n_opts,
                   answer_index, recent, VisionUnused>>

\* self.quiz.end([self.quiz.output_file]); cap.release(); destroyAllWindows()
VisionEnd ==
    /\ pc = "vision_end"
    /\ pc' = "finished"
    /\ notify_listeners("END", <<output_file>>)
    /\ UNCHANGED <<quiz_file, player_index, line_index, line, results, n_opts, answer_index,
                   recent, records, quiz_call, VisionUnused>>

NextVision ==
    \/ VisionBegin
    \/ VisionNextQuestion
    \/ VisionAskNextPlayer
    \/ \E frame \in VisionFrames : VisionFrame(frame)
    \/ VisionRecordAnswer
    \/ VisionEnd

SpecVision == InitVision /\ [][NextVision]_vars

\* The last frame of the turn, once there is one.
LastFrame == recent[Len(recent)]

\* The surfaces the frame is judged on: surf_v and surf_r in yes/no mode,
\* those of the first n_opts colors otherwise.
Evaluated(frame) ==
    SubSeq(frame.surfaces, 1, IF n_opts = 2 THEN 2 ELSE Min(n_opts, NumVisionColors))

\* Two evaluated colors share the largest surface of the frame, and it is
\* above the threshold.
TiedAboveThreshold(frame) ==
    /\ frame.ret
    /\ frame.mask
    /\ \E i, j \in 1..Len(Evaluated(frame)) :
        /\ i < j
        /\ Evaluated(frame)[i] = Evaluated(frame)[j]
        /\ Evaluated(frame)[i] > seuil_minimum
        /\ \A k \in 1..Len(Evaluated(frame)) : Evaluated(frame)[k] <= Evaluated(frame)[i]

\* The lowest answer index whose color has the largest surface.
LowestOfLargest(frame) ==
    (CHOOSE i \in 1..Len(Evaluated(frame)) :
        /\ \A k \in 1..Len(Evaluated(frame)) : Evaluated(frame)[k] <= Evaluated(frame)[i]
        /\ \A k \in 1..(i - 1) : Evaluated(frame)[k] /= Evaluated(frame)[i]) - 1

(***************************************************************************)
(* C36 - In QuizControllerVision.run_quiz, when two evaluated colors have  *)
(* equal surfaces above the minimum threshold (and no color has a larger   *)
(* one), the lower answer index is selected, in the yes/no mode (Green =   *)
(* 0, Red = 1) as in the multi-option mode.                                *)
(***************************************************************************)
C36_TieTakesLowestIndex ==
    (pc \in {"vision_frame", "vision_record", "returned"} /\ Len(recent) > 0
       /\ TiedAboveThreshold(LastFrame)) =>
        LastFrame.reponse_index = LowestOfLargest(LastFrame)

\* The step is a failed read of the detection loop.
VisionFailedRead ==
    /\ pc = "vision_frame"
    /\ pc' /= "vision_frame" \/ recent' /= recent
    /\ ~recent'[Len(recent')].ret

\* The step is the call of record_answer that follows the detection loop.
VisionRecordStep == pc = "vision_record" /\ pc' /= "vision_record"

(***************************************************************************)
(* C37 - In QuizControllerVision.run_quiz a failed frame read is skipped   *)
(* without ending the turn of the player: the detection loop goes on, and  *)
(* record_answer is called, and the next player asked, only once a color   *)
(* has been detected.                                                      *)
(***************************************************************************)
C37_FailedReadKeepsTurn ==
    /\ [][VisionFailedRead =>
            /\ pc' = "vision_frame"
            /\ UNCHANGED <<answer_index, player_index, line_index, results>>]_vars
    /\ [][VisionRecordStep => answer_index[1] >= 0]_vars

(***************************************************************************)
(* C38 - In QuizControllerVision.run_quiz a color detected in one frame    *)
(* only does not register an answer: record_answer is called with a valid  *)
(* index only after that candidate has been detected in consecutive        *)
(* frames (at least the last two of the turn).                             *)
(***************************************************************************)
C38_SingleFrameNoAnswer ==
    [][(VisionRecordStep /\ 0 <= answer_index[1] /\ answer_index[1] < n_opts) =>
        /\ Len(recent) = 2
        /\ recent[1].reponse_index = answer_index[1]
        /\ recent[2].reponse_index = answer_index[1]]_vars

(***************************************************************************)
(* quiz/cv/cv_utils.py: compute_color_surface and compute_red_surface.     *)
(* An image is a row of HSV pixels <<h, s, v>>; a mask is a row of 0 / 255 *)
(* values.  The median blur is taken over a window of blur_ksize pixels    *)
(* centred on each pixel, the border pixel being replicated outside the    *)
(* row.                                                                    *)
(***************************************************************************)
ColorRange(lower, upper) == [lower |-> lower, upper |-> upper]

\* ColorDetectionConfig.green, .red1, .red2
green == ColorRange(<<40, 100, 50>>, <<80, 255, 255>>)

red1 == ColorRange(<<0, 170, 100>>, <<6, 255, 255>>)

red2 == ColorRange(<<170, 170, 100>>, <<180, 255, 255>>)

\* cv2.inRange(hsv_img, lower, upper): 255 where every channel is in range.
inRange(hsv_img, color) ==
    [i \in 1..Len(hsv_img) |->
        IF \A c \in 1..3 : color.lower[c] <= hsv_img[i][c] /\ hsv_img[i][c] <= color.upper[c]
        THEN 255 ELSE 0]

\* A second red range configured down to the hues of red1: the two ranges
\* of the color overlap on hues 3..6.
red2_overlapping == ColorRange(<<3, 170, 100>>, <<180, 255, 255>>)

\* Faulty variant: the 8-bit sum wraps around.
addWeighted_wraps(mask1, mask2) ==
    [i \in 1..Len(mask1) |-> (mask1[i] + mask2[i]) % 256]

\* cv2.addWeighted(mask1, 1.0, mask2, 1.0, 0) on 8-bit masks: saturated sum.
addWeighted(mask1, mask2) ==
    [i \in 1..Len(mask1) |-> Min(mask1[i] + mask2[i], 255)]

\* cv2.medianBlur(mask, ksize), ksize odd.
medianBlur(mask, ksize) ==
    LET half == ksize \div 2
        at(i) == mask[IF i < 1 THEN 1 ELSE IF i > Len(mask) THEN Len(mask) ELSE i]
        window(i) == [k \in 1..ksize |-> at(i - half + k - 1)]
        median(w) == CHOOSE m \in {w[k] : k \in 1..ksize} :
                        /\ Cardinality({k \in 1..ksize : w[k] <= m}) > half
                        /\ Cardinality({k \in 1..ksize : w[k] >= m}) > half
    IN  [i \in 1..Len(mask) |-> median(window(i))]

RECURSIVE np_sum(_)
\* int(np.sum(mask))
np_sum(mask) == IF Len(mask) = 0 THEN 0 ELSE mask[1] + np_sum(Tail(mask))

compute_color_surface(hsv_img, color, blur_ksize) ==
    np_sum(medianBlur(inRange(hsv_img, color), blur_ksize))

compute_red_surface(hsv_img, r1, r2, blur_ksize) ==
    np_sum(medianBlur(addWeighted(inRange(hsv_img, r1), inRange(hsv_img, r2)), blur_ksize))

\* Largest number of pixels of an image.
MaxPixels == 3

\* Pixels of a masked image: masked out (black), green, and the two reds.
Pixels == {<<0, 0, 0>>, <<60, 200, 200>>, <<3, 200, 200>>, <<175, 200, 200>>}

\* The kernel size of the median blur on these images (blur_small_sign,
\* reduced to the size of the images of the model).
BlurKsize == 3

\* The calls: the detector of "Green", the detector of "Red", and
\* compute_red_surface with two ranges that overlap.
SurfaceCalls ==
    {[fn |-> "compute_color_surface", colors |-> <<green>>],
     [fn |-> "compute_red_surface", colors |-> <<red1, red2>>],
     [fn |-> "compute_red_surface", colors |-> <<red1, red2_overlapping>>]}

SurfaceArgs ==
    {[fn |-> c.fn, colors |-> c.colors, pixels |-> px] :
        c \in SurfaceCalls,
        px \in UNION {[1..len -> Pixels] : len \in 0..MaxPixels}}

InitSurface ==
    /\ pc = "compute_surface"
    /\ NotRun
    /\ NoDetectCall
    /\ NoMaskCall
    /\ cs_args \in SurfaceArgs
    /\ cs_outcome = None
    /\ timer_call = None
    /\ quiz_call = None
    /\ hold_call = None
    /\ NoController

\* The surface function called on the masked image, as the lambdas of
\* color_detectors call it.
ComputeSurfaceCall ==
    /\ pc = "compute_surface"
    /\ cs_outcome' = Some(IF cs_args.fn = "compute_red_surface"
                          THEN compute_red_surface(cs_args.pixels, cs_args.colors[1],
                                                   cs_args.colors[2], BlurKsize)
                          ELSE compute_color_surface(cs_args.pixels, cs_args.colors[1],
                                                     BlurKsize))
    /\ pc' = "compute_surface_done"
    /\ UNCHANGED <<now, quizVars, cvVars, histVars, dc_args, dc_outcome, gm_args, gm_outcome,
                   cs_args, timer_call, quiz_call, gm_calls,
                   hold_call, ctlVars>>

NextSurface == ComputeSurfaceCall

SpecSurface == InitSurface /\ [][NextSurface]_vars

\* The mask of the pixels matching the color of the call, after denoising.
DenoisedMatch ==
    medianBlur(IF cs_args.fn = "compute_red_surface"
               THEN addWeighted(inRange(cs_args.pixels, cs_args.colors[1]),
                                inRange(cs_args.pixels, cs_args.colors[2]))
               ELSE inRange(cs_args.pixels, cs_args.colors[1]),
               BlurKsize)

\* The number of pixels of that mask that match.
MatchingPixels == Cardinality({i \in 1..Len(DenoisedMatch) : DenoisedMatch[i] /= 0})

(***************************************************************************)
(* C20 - The surface score of a candidate color is the count of the        *)
(* pixels of the masked image that match the color's HSV range after       *)
(* denoising; this count is what detect_color compares with                *)
(* min_color_area.                                                         *)
(***************************************************************************)
C20_SurfaceIsPixelCount ==
    (pc = "compute_surface_done" /\ cs_outcome /= None) => cs_outcome[1] = MatchingPixels

\* Pixel i (from 1) of the image of the call lies in the HSV range color.
PixelInRange(i, color) ==
    /\ color.lower[1] <= cs_args.pixels[i][1] /\ cs_args.pixels[i][1] <= color.upper[1]
    /\ color.lower[2] <= cs_args.pixels[i][2] /\ cs_args.pixels[i][2] <= color.upper[2]
    /\ color.lower[3] <= cs_args.pixels[i][3] /\ cs_args.pixels[i][3] <= color.upper[3]

\* The pixel-wise OR of the two range masks of the call.
OrMask ==
    [i \in 1..Len(cs_args.pixels) |->
        IF PixelInRange(i, cs_args.colors[1]) \/ PixelInRange(i, cs_args.colors[2])
        THEN 255 ELSE 0]

\* compute_red_surface has been called on its own.
RedSurfaceCalled ==
    pc = "compute_surface_done" /\ cs_outcome /= None /\ cs_args.fn = "compute_red_surface"

(***************************************************************************)
(* C21 - compute_red_surface merges the masks of its two ranges so that    *)
(* every pixel of the merged mask is 255 exactly when the pixel lies in at *)
(* least one of the ranges and 0 otherwise; a pixel in both ranges is      *)
(* merged to 255 (the 8-bit sum saturates, it does not wrap), and the      *)
(* score is the score of the pixel-wise OR of the two masks.               *)
(***************************************************************************)
C21_MergedMaskIsOr ==
    RedSurfaceCalled =>
        LET merged == addWeighted(inRange(cs_args.pixels, cs_args.colors[1]),
                                  inRange(cs_args.pixels, cs_args.colors[2]))
        IN  /\ \A i \in 1..Len(cs_args.pixels) : merged[i] = OrMask[i]
            /\ cs_outcome[1] = np_sum(medianBlur(OrMask, BlurKsize))

\* Every pixel of the image lies in both ranges and the score counts each once.
C21_Witness ==
    /\ RedSurfaceCalled
    /\ Len(cs_args.pixels) >= 2
    /\ \A i \in 1..Len(cs_args.pixels) :
            PixelInRange(i, cs_args.colors[1]) /\ PixelInRange(i, cs_args.colors[2])
    /\ cs_outcome[1] = 255 * Len(cs_args.pixels)

====
